---------------------------- MODULE Spec2Model ----------------------------
(***************************************************************************)
(* The document ingestion-and-retrieval pipeline of researchportal:        *)
(* server/storage.ts (DatabaseStorage) and server/routes.ts (the HTTP      *)
(* handlers and the background processDocument), both held in              *)
(* src/unnamed/part_000.                                                   *)
(*                                                                         *)
(* Text is a sequence of strings: characters, or longer fragments that     *)
(* hold no brace.  A nullable column is                                    *)
(* None (<<>>) or Some(v) (<<v>>).  The tables documentPages and           *)
(* embeddings are sets of rows; the field "run" of a row stands for the    *)
(* row's serial id and names the processDocument invocation that inserted  *)
(* it.                                                                     *)
(***************************************************************************)
EXTENDS Integers, Sequences, FiniteSets, TLC

VARIABLES
    documents,      \* table documents: a function id -> row, on the ids that exist
    nextDocId,      \* the serial id the next createDocument returns
    objects,        \* object storage: document id (its filePath) -> uploaded file
    documentPages,  \* table document_pages
    embeddings,     \* table embeddings
    runs,           \* the Reprocess handlers and processDocument invocations in flight
    nextRunId,      \* the number the next invocation gets
    finished,       \* the history of the invocation that returned last
    qaHistory,      \* table qa_history, in order of insertion
    response        \* the last HTTP response of a search / ask handler

vars == <<documents, nextDocId, objects, documentPages, embeddings, runs,
          nextRunId, finished, qaHistory, response>>

-----------------------------------------------------------------------------
(* Bounds of the model *)

MaxDocs == 1       \* documents uploaded in the lifecycle model
MaxRuns == 2       \* upload and reprocess requests in the lifecycle model
MaxCorpus == 11    \* documents of a corpus that is searched
MaxAsks == 1       \* corpus-wide asks that reach the history
MaxDeleted == 2    \* documents of a corpus whose documents are deleted

-----------------------------------------------------------------------------
(* Values *)

None == <<>>
Some(v) == <<v>>

Max(a, b) == IF a >= b THEN a ELSE b
Min(a, b) == IF a <= b THEN a ELSE b

\* Math.ceil(a / b) for a >= 0, b > 0
Ceil(a, b) == (a + b - 1) \div b

\* A text of n copies of character c
Rep(c, n) == [k \in 1..n |-> c]

\* String.prototype.slice(start, end) for 0 <= start, 0 <= end (0-based, end exclusive)
Slice(t, start, end) ==
    LET s == Min(start, Len(t))
        e == Min(end, Len(t))
    IN  IF s >= e THEN <<>> ELSE SubSeq(t, s + 1, e)

\* pageText.trim() is falsy: the text is empty or whitespace only
Blank(t) == \A k \in 1..Len(t) : t[k] = " "

\* The fixed texts of processDocument, at their length, one marker character each
PdfFailedText == Rep("F", 71)
ExcelText == Rep("E", 49)
ImageText == Rep("I", 30)
UnsupportedText == Rep("U", 46)

ChunkLimit == 2000
CharsPerToken == 4

\* The row limits of the search and ask handlers
SearchLimit == 20
AskLimit == 10
TitleFallbackLimit == 10
PreviewLimit == 300
FallbackDocs == 5
ContextLimit == 50000
HistoryLimit == 20

\* An allow-list that lets plain text through as well
AllowedTypesAndText ==
    { "application/pdf",
      "application/vnd.openxmlformats-officedocument.spreadsheetml.sheet",
      "application/vnd.ms-excel",
      "application/vnd.openxmlformats-officedocument.wordprocessingml.document",
      "text/csv",
      "image/png",
      "image/jpeg",
      "text/plain" }

\* The MIME types upload's fileFilter lets through
AllowedTypes ==
    { "application/pdf",
      "application/vnd.openxmlformats-officedocument.spreadsheetml.sheet",
      "application/vnd.ms-excel",
      "application/vnd.openxmlformats-officedocument.wordprocessingml.document",
      "text/csv",
      "image/png",
      "image/jpeg" }

\* A test that finds no word in any MIME type
IncludesNothing(fileType, word) == FALSE

\* fileType.includes(word), for the words processDocument asks about
Includes(fileType, word) ==
    CASE word = "spreadsheet" ->
            fileType = "application/vnd.openxmlformats-officedocument.spreadsheetml.sheet"
      [] word = "excel" -> fileType = "application/vnd.ms-excel"
      [] word = "image" -> fileType \in {"image/png", "image/jpeg"}
      [] OTHER -> FALSE

ValidTypes ==
    { "annual_report", "quarterly_earnings", "concall_transcript", "industry_report",
      "research_note", "investor_presentation", "regulatory_filing", "other" }

-----------------------------------------------------------------------------
(* Inputs *)

\* What pdf-parse reads from an uploaded PDF: getText().text and getInfo().total
PdfTexts == { <<>>, <<"a", " ", "a">> }
PdfTotals == { 0, 3 }

\* An uploaded file: its MIME type and, for a PDF, what the parser reads from it
PdfFiles ==
    { [fileType |-> "application/pdf", text |-> t, total |-> n] :
          t \in PdfTexts, n \in PdfTotals }

OtherFiles ==
    { [fileType |-> ft, text |-> <<>>, total |-> 0] :
          ft \in AllowedTypes \ {"application/pdf"} }

\* The files uploaded in the lifecycle model: every PDF, and one file of each
\* branch of the extraction
Files ==
    PdfFiles \cup { f \in OtherFiles :
                      f.fileType \in {"application/vnd.ms-excel", "image/png", "text/csv"} }

\* The files uploaded when the interleavings alone are followed: a PDF whose
\* first page slice is blank, an empty PDF and an image
RaceFiles ==
    { [fileType |-> "application/pdf", text |-> <<" ", "a">>, total |-> 2],
      [fileType |-> "application/pdf", text |-> <<>>, total |-> 0],
      [fileType |-> "image/png", text |-> <<>>, total |-> 0] }

\* The files of the runs that are followed alone: PDFs of one, two and three
\* reported pages whose slices are all non-blank, or start blank, or end
\* empty; a PDF without text; one without a reported page count; one whose
\* only page is longer than a chunk; and a file of every other allowed type
LongText == Rep("a", ChunkLimit + 1)

RunFiles ==
    { [fileType |-> "application/pdf", text |-> x[1], total |-> x[2]] :
        x \in { << <<"a">>, 1 >>, << <<"a", "b", "c">>, 2 >>,
                << <<"a", "b", "c">>, 3 >>, << <<"a", "b", "c", "d">>, 3 >>,
                << <<" ", "a">>, 2 >>, << <<>>, 0 >>, << <<>>, 2 >>,
                << <<"a", "b">>, 0 >>, << LongText, 1 >> } }
    \cup OtherFiles

\* A file of a type the fileFilter turns away, and a request without a file
TextFile == [fileType |-> "text/plain", text |-> <<>>, total |-> 0]
NoFile == <<>>

\* What becomes of the PUT of the file to object storage
PutOutcomes == { "stored", "refused", "throws" }

\* file.originalname of the uploads of the lifecycle model
Names == { <<"a", ".", "p">> }

\* What the pdf-parse calls of one run do: all return, getText/getInfo throws,
\* or destroy throws after the text was sliced
ParseOutcomes == { "ok", "parseThrows", "destroyThrows" }

\* What the classifier request yields: a text block, a non-text block, or an
\* error
ClassifyReplies ==
    { [type |-> "text", text |-> " Annual_Report "],
      [type |-> "text", text |-> "a report"],
      [type |-> "tool_use", text |-> ""],
      [type |-> "error", text |-> ""] }


\* classContent.text.toLowerCase().trim(), on the replies above
LowerTrim(text) ==
    CASE text = " Annual_Report " -> "annual_report"
      [] OTHER -> text

-----------------------------------------------------------------------------
(* storage.ts: DatabaseStorage *)

\* file.originalname.replace(/\.[^/.]+$/, ""): the last "." and what follows it
\* are dropped when at least one character follows and none of them is "/"
TitleOf(originalname) ==
    LET dots == { k \in 1..Len(originalname) : originalname[k] = "." }
        last == CHOOSE k \in dots : \A j \in dots : j <= k
    IN  IF /\ dots # {}
           /\ last < Len(originalname)
           /\ \A j \in (last + 1)..Len(originalname) : originalname[j] # "/"
        THEN SubSeq(originalname, 1, last - 1)
        ELSE originalname

\* createDocument with the fields the upload handler gives; the other columns are null
NewDocument(originalname, fileType) ==
    [ title |-> TitleOf(originalname), originalFilename |-> originalname,
      fileType |-> fileType, processingStatus |-> "pending",
      fullText |-> None, pageCount |-> None, documentType |-> None,
      errorMessage |-> None, aiSummary |-> None, keyTopics |-> None,
      sentiment |-> None ]

\* getDocument(id): the row or undefined
GetDocument(id) == IF id \in DOMAIN documents THEN Some(documents[id]) ELSE None

\* db.update(documents).set(updates) on one row
SetColumns(row, updates) ==
    [f \in DOMAIN row |-> IF f \in DOMAIN updates THEN updates[f] ELSE row[f]]

\* updateDocument(id, updates): UPDATE ... WHERE id = id; no row, no change
UpdateDocument(id, updates) ==
    IF id \in DOMAIN documents
    THEN [documents EXCEPT ![id] = SetColumns(documents[id], updates)]
    ELSE documents

\* getDocumentPages(documentId)
GetDocumentPages(id) == { p \in documentPages : p.documentId = id }

\* getEmbeddings(documentId)
GetEmbeddings(id) == { e \in embeddings : e.documentId = id }

\* deleteDocumentPages(documentId)
DeleteDocumentPages(id) == { p \in documentPages : p.documentId # id }

\* deleteDocumentEmbeddings(documentId)
DeleteDocumentEmbeddings(id) == { e \in embeddings : e.documentId # id }

\* deleteDocument(id)
DeleteDocument(id) == [d \in DOMAIN documents \ {id} |-> documents[d]]

\* The schema's foreign key document_pages.document_id / embeddings.document_id ->
\* documents.id: an insert for a document that is gone is refused
ForeignKeyHolds(id) == id \in DOMAIN documents

\* The schema's ON DELETE CASCADE of those foreign keys: the rows of a table
\* that are left when the document is deleted
OnDeleteCascade(rows, id) == { row \in rows : row.documentId # id }

-----------------------------------------------------------------------------
(* routes.ts: processDocument, step by step *)

\* The locals of a processDocument invocation before its first statement
NewRun(kind, pc, id) ==
    [ kind |-> kind, pc |-> pc, documentId |-> id,
      extractedText |-> <<>>, pageCount |-> 1, pageTexts |-> <<>>, i |-> 0,
      error |-> "",
      \* history of the invocation, read by the properties only
      parse |-> "none", nPages |-> 0, nChunks |-> 0 ]

\* A page count that ignores what the parser reports
PageCountOne(total) == 1

\* info.total || 1
PageCountOf(total) == IF total = 0 THEN 1 ELSE total

\* A page slicing whose slice length is rounded down
SplitPagesFloor(text, pageCount) ==
    IF Len(text) > 0
    THEN LET charsPerPage == Len(text) \div pageCount
         IN  [k \in 1..pageCount |->
                 Slice(text, (k - 1) * charsPerPage,
                       Min(k * charsPerPage, Len(text)))]
    ELSE <<>>

\* The page slicing of a parsed PDF: charsPerPage = ceil(length / pageCount),
\* slice i = text.slice(i * charsPerPage, min((i + 1) * charsPerPage, length));
\* nothing is pushed for an empty text
SplitPages(text, pageCount) ==
    IF Len(text) > 0
    THEN LET charsPerPage == Ceil(Len(text), pageCount)
         IN  [k \in 1..pageCount |->
                 Slice(text, (k - 1) * charsPerPage,
                       Min(k * charsPerPage, Len(text)))]
    ELSE <<>>

\* A page loop without the trim() test
NextPageUngated(pageTexts, i) == Min(i, Len(pageTexts))

\* The first index j >= i (0-based) of the page loop whose page text passes
\* the pageText.trim() test, or pageTexts.length when there is none
NextPage(pageTexts, i) ==
    LET rest == { j \in i..(Len(pageTexts) - 1) : ~Blank(pageTexts[j + 1]) }
    IN  IF rest = {} THEN Len(pageTexts)
        ELSE CHOOSE j \in rest : \A k \in rest : j <= k

\* A page row numbered by the loop index itself
PageRowZeroBased(run, id, pageTexts, i) ==
    [ run |-> run, documentId |-> id, pageNumber |-> i,
      pageText |-> pageTexts[i + 1] ]

\* A chunk row indexed by the count of chunks written so far
ChunkRowCounted(run, id, pageTexts, i) ==
    [ run |-> run, documentId |-> id, pageNumber |-> i + 1,
      chunkText |-> Slice(pageTexts[i + 1], 0, ChunkLimit),
      chunkIndex |-> Cardinality({ j \in 0..(i - 1) : ~Blank(pageTexts[j + 1]) }),
      tokenCount |-> Ceil(Len(pageTexts[i + 1]), CharsPerToken) ]

\* A chunk row that holds the whole page text
ChunkRowWhole(run, id, pageTexts, i) ==
    [ run |-> run, documentId |-> id, pageNumber |-> i + 1,
      chunkText |-> pageTexts[i + 1],
      chunkIndex |-> i,
      tokenCount |-> Ceil(Len(pageTexts[i + 1]), CharsPerToken) ]

\* The page row and the chunk row the loop writes at index i
PageRow(run, id, pageTexts, i) ==
    [ run |-> run, documentId |-> id, pageNumber |-> i + 1,
      pageText |-> pageTexts[i + 1] ]

ChunkRow(run, id, pageTexts, i) ==
    [ run |-> run, documentId |-> id, pageNumber |-> i + 1,
      chunkText |-> Slice(pageTexts[i + 1], 0, ChunkLimit),
      chunkIndex |-> i,
      tokenCount |-> Ceil(Len(pageTexts[i + 1]), CharsPerToken) ]

\* A classification that takes the reply's text as it is
ClassifiedTypeRaw(reply) == IF reply.type = "text" THEN reply.text ELSE "other"

\* The classification: the reply's text, lower-cased and trimmed, when it is a
\* valid type; "other" for any other text, a non-text block or an error
ClassifiedType(reply) ==
    IF reply.type = "text" /\ LowerTrim(reply.text) \in ValidTypes
    THEN LowerTrim(reply.text)
    ELSE "other"

\* error.message of what an awaited call throws at each step of the try block
ErrorAt(pc) ==
    CASE pc = "load" -> "object storage read failed"
      [] OTHER -> "database error"

\* The history of an invocation that has returned: its locals are gone
Finished(r, run, outcome) ==
    [ run |-> r, documentId |-> run.documentId, parse |-> run.parse,
      outcome |-> outcome ]

\* The invocations in flight with r added / with r removed
Started(r, run) == [q \in DOMAIN runs \cup {r} |-> IF q = r THEN run ELSE runs[q]]
Returned(r) == [q \in DOMAIN runs \ {r} |-> runs[q]]

Init ==
    /\ documents = <<>>
    /\ nextDocId = 1
    /\ objects = <<>>
    /\ documentPages = {}
    /\ embeddings = {}
    /\ runs = <<>>
    /\ nextRunId = 1
    /\ finished = Finished(0, NewRun("none", "done", 0), "none")
    /\ qaHistory = <<>>
    /\ response = [kind |-> "none"]

Running(r) == r \in DOMAIN runs

\* The upload handler returns without having created anything
SubmitRefused(outcome) ==
    /\ finished' = Finished(0, NewRun("submit", "done", 0), outcome)
    /\ UNCHANGED <<documents, nextDocId, objects, runs, nextRunId>>

\* POST /api/documents/upload.  multer's fileFilter passes the file on or
\* fails the request; without a file the handler answers 400; the PUT to the
\* upload URL is awaited and its response is not looked at: the object is
\* there when the store took it ("stored") and is not when the store answered
\* with an error status ("refused"); when the fetch or a storage call throws
\* the handler answers 500.  Then the row is created with status pending and
\* processDocument is started.
Submit(originalname, file, put) ==
    /\ IF file = NoFile THEN SubmitRefused("http400")
       ELSE IF file.fileType \notin AllowedTypes THEN SubmitRefused("invalidFileType")
       ELSE IF put = "throws" THEN SubmitRefused("http500")
       ELSE /\ nextDocId <= MaxDocs
            /\ nextRunId <= MaxRuns
            /\ objects' = IF put = "stored"
                          THEN [d \in DOMAIN objects \cup {nextDocId} |->
                                   IF d = nextDocId THEN file ELSE objects[d]]
                          ELSE objects
            /\ documents' = [d \in DOMAIN documents \cup {nextDocId} |->
                              IF d = nextDocId
                              THEN NewDocument(originalname, file.fileType)
                              ELSE documents[d]]
            /\ nextDocId' = nextDocId + 1
            /\ runs' = Started(nextRunId, NewRun("submit", "start", nextDocId))
            /\ nextRunId' = nextRunId + 1
            /\ UNCHANGED finished
    /\ UNCHANGED <<documentPages, embeddings, qaHistory, response>>

\* A start that also retries: a failed document without an invocation in
\* flight is taken up again by a new invocation
RunStartOrRetry(r) ==
    \/ /\ Running(r) /\ runs[r].pc = "start"
       /\ documents' = UpdateDocument(runs[r].documentId,
                                      [processingStatus |-> "processing"])
       /\ runs' = [runs EXCEPT ![r].pc = "load"]
       /\ UNCHANGED <<nextDocId, objects, documentPages, embeddings, qaHistory,
                      response, nextRunId, finished>>
    \/ /\ r = nextRunId /\ nextRunId <= MaxRuns
       /\ \E d \in DOMAIN documents :
            /\ documents[d].processingStatus = "failed"
            /\ \A q \in DOMAIN runs : runs[q].documentId # d
            /\ documents' = UpdateDocument(d, [processingStatus |-> "processing"])
            /\ runs' = Started(r, NewRun("retry", "load", d))
       /\ nextRunId' = nextRunId + 1
       /\ UNCHANGED <<nextDocId, objects, documentPages, embeddings, qaHistory,
                      response, finished>>

\* processDocument: await storage.updateDocument(documentId, {processingStatus: "processing"})
RunStart(r) ==
    /\ Running(r) /\ runs[r].pc = "start"
    /\ documents' = UpdateDocument(runs[r].documentId,
                                   [processingStatus |-> "processing"])
    /\ runs' = [runs EXCEPT ![r].pc = "load"]
    /\ UNCHANGED <<nextDocId, objects, documentPages, embeddings, qaHistory, response, nextRunId, finished>>

\* A catch of the PDF branch that replaces extractedText and pushes no page
PdfCatchNoPage(pushed, pageCount) ==
    [ extractedText |-> PdfFailedText, pageCount |-> pageCount,
      pageTexts |-> pushed ]

\* The catch of the PDF branch: the failure text replaces extractedText and is
\* pushed onto whatever pageTexts already holds
PdfCatch(pushed, pageCount) ==
    [ extractedText |-> PdfFailedText, pageCount |-> pageCount,
      pageTexts |-> Append(pushed, PdfFailedText) ]

\* The PDF branch of processDocument for each outcome of the parser calls.
\* getText and getInfo are awaited before anything is assigned; destroy is
\* awaited after extractedText, pageCount and pageTexts were set
ExtractPdf(file, outcome) ==
    LET pageCount == PageCountOf(file.total)
        sliced == SplitPages(file.text, pageCount)
    IN  CASE outcome = "ok" ->
                [ extractedText |-> file.text, pageCount |-> pageCount,
                  pageTexts |-> sliced ]
          [] outcome = "parseThrows" -> PdfCatch(<<>>, 1)
          [] outcome = "destroyThrows" -> PdfCatch(sliced, pageCount)

\* The extraction of processDocument: extractedText, pageCount and pageTexts by
\* file type
Extract(fileType, file, outcome) ==
    IF fileType = "application/pdf"
    THEN ExtractPdf(file, outcome)
    ELSE IF Includes(fileType, "spreadsheet") \/ Includes(fileType, "excel")
    THEN [ extractedText |-> ExcelText, pageCount |-> 1, pageTexts |-> <<ExcelText>> ]
    ELSE IF Includes(fileType, "image")
    THEN [ extractedText |-> ImageText, pageCount |-> 1, pageTexts |-> <<ImageText>> ]
    ELSE [ extractedText |-> UnsupportedText, pageCount |-> 1,
           pageTexts |-> <<UnsupportedText>> ]

\* Where the page loop stands after the synchronous code that follows a step:
\* at the next createDocumentPage, or past the loop at the classification
LoopPc(pageTexts, i) == IF NextPage(pageTexts, i) < Len(pageTexts) THEN "page" ELSE "complete"

\* processDocument: const document = await storage.getDocument(documentId);
\* if (!document) return; then the file is read from object storage into
\* fileBuffer and its text extracted by file type.  The buffer, the parser and
\* what they yield are local to the invocation, so the reads and the
\* extraction are one step.  When object storage has no object at the
\* document's filePath the read throws (RunThrow).
RunExtract(r, outcome) ==
    /\ Running(r) /\ runs[r].pc = "load"
    /\ LET document == GetDocument(runs[r].documentId)
       IN  IF document = None
           THEN /\ outcome = "ok"
                /\ runs' = Returned(r)
                /\ finished' = Finished(r, runs[r], "absent")
           ELSE /\ runs[r].documentId \in DOMAIN objects
                /\ (outcome # "ok") => document[1].fileType = "application/pdf"
                /\ LET x == Extract(document[1].fileType,
                                    objects[runs[r].documentId], outcome)
                   IN  runs' = [runs EXCEPT
                            ![r].extractedText = x.extractedText,
                            ![r].pageCount = x.pageCount,
                            ![r].pageTexts = x.pageTexts,
                            ![r].i = NextPage(x.pageTexts, 0),
                            ![r].pc = LoopPc(x.pageTexts, 0),
                            ![r].parse =
                                IF document[1].fileType = "application/pdf"
                                THEN outcome ELSE "none"]
                /\ UNCHANGED finished
    /\ UNCHANGED <<documents, nextDocId, objects, documentPages, embeddings,
                   nextRunId, qaHistory, response>>

\* The page loop: await storage.createDocumentPage({documentId, pageNumber: i + 1, pageText})
RunCreatePage(r) ==
    /\ Running(r) /\ runs[r].pc = "page"
    /\ ForeignKeyHolds(runs[r].documentId)
    /\ documentPages' = documentPages \cup
            { PageRow(r, runs[r].documentId, runs[r].pageTexts, runs[r].i) }
    /\ runs' = [runs EXCEPT ![r].pc = "chunk", ![r].nPages = @ + 1]
    /\ UNCHANGED <<documents, nextDocId, objects, embeddings, qaHistory, response, nextRunId, finished>>

\* The page loop: await storage.createEmbedding({documentId, pageNumber: i + 1,
\* chunkText: pageText.slice(0, 2000), chunkIndex: i, tokenCount}), then i++
\* and on to the next page that passes the trim() test
RunCreateEmbedding(r) ==
    /\ Running(r) /\ runs[r].pc = "chunk"
    /\ ForeignKeyHolds(runs[r].documentId)
    /\ embeddings' = embeddings \cup
            { ChunkRow(r, runs[r].documentId, runs[r].pageTexts, runs[r].i) }
    /\ runs' = [runs EXCEPT ![r].i = NextPage(runs[r].pageTexts, runs[r].i + 1),
                            ![r].pc = LoopPc(runs[r].pageTexts, runs[r].i + 1),
                            ![r].nChunks = @ + 1]
    /\ UNCHANGED <<documents, nextDocId, objects, documentPages, qaHistory, response, nextRunId, finished>>

\* A completed update that leaves the page count as it was
CompletedUpdateUncounted(run, documentType) ==
    [ processingStatus |-> "completed", fullText |-> Some(run.extractedText),
      documentType |-> Some(documentType) ]

\* The fields of the update that marks the document completed
CompletedUpdate(run, documentType) ==
    [ processingStatus |-> "completed", fullText |-> Some(run.extractedText),
      pageCount |-> Some(run.pageCount), documentType |-> Some(documentType) ]

\* The fields of the update the catch block makes
FailedUpdate(run) ==
    [ processingStatus |-> "failed", errorMessage |-> Some(run.error) ]

\* processDocument: the classifier request and the validation of its reply (an
\* error is caught and leaves "other"; the reply stays local), then
\* await storage.updateDocument(documentId, {processingStatus: "completed", ...})
RunComplete(r, reply) ==
    /\ Running(r) /\ runs[r].pc = "complete"
    /\ documents' = UpdateDocument(runs[r].documentId,
                                   CompletedUpdate(runs[r], ClassifiedType(reply)))
    /\ runs' = Returned(r)
    /\ finished' = Finished(r, runs[r], "completed")
    /\ UNCHANGED <<nextDocId, objects, documentPages, embeddings, qaHistory, response, nextRunId>>

\* The steps of the try block whose awaited call can throw into the catch block
ThrowingSteps == { "start", "load", "page", "chunk", "complete" }

\* An awaited call of the try block throws (a storage call, the object read):
\* control passes to the catch block with the error
RunThrow(r) ==
    /\ Running(r) /\ runs[r].pc \in ThrowingSteps
    /\ runs' = [runs EXCEPT ![r].pc = "catch", ![r].error = ErrorAt(runs[r].pc)]
    /\ UNCHANGED <<documents, nextDocId, objects, documentPages, embeddings,
                   qaHistory, response, nextRunId, finished>>

\* A catch block that only logs
RunCatchSilent(r) ==
    /\ Running(r) /\ runs[r].pc = "catch"
    /\ runs' = Returned(r)
    /\ finished' = Finished(r, runs[r], "failed")
    /\ UNCHANGED <<documents, nextDocId, objects, documentPages, embeddings,
                   qaHistory, response, nextRunId>>

\* catch: await storage.updateDocument(documentId, {processingStatus: "failed", errorMessage})
RunCatch(r) ==
    /\ Running(r) /\ runs[r].pc = "catch"
    /\ documents' = UpdateDocument(runs[r].documentId, FailedUpdate(runs[r]))
    /\ runs' = Returned(r)
    /\ finished' = Finished(r, runs[r], "failed")
    /\ UNCHANGED <<nextDocId, objects, documentPages, embeddings, qaHistory, response, nextRunId>>

\* catch: the updateDocument of the catch block throws itself; processDocument
\* rejects and its caller logs the rejection (.catch(console.error))
RunCatchThrow(r) ==
    /\ Running(r) /\ runs[r].pc = "catch"
    /\ runs' = Returned(r)
    /\ finished' = Finished(r, runs[r], "rejected")
    /\ UNCHANGED <<documents, nextDocId, objects, documentPages, embeddings,
                   qaHistory, response, nextRunId>>

-----------------------------------------------------------------------------
(* routes.ts: POST /api/documents/:id/reprocess and DELETE /api/documents/:id *)

\* The fields of the update that resets a document for reprocessing
ResetUpdate ==
    [ processingStatus |-> "pending", fullText |-> None, aiSummary |-> None,
      keyTopics |-> None, sentiment |-> None, errorMessage |-> None ]

\* reprocess: getDocument; an unknown id is answered 404 and the handler
\* returns, otherwise it goes on to delete the document's pages
ReprocessBegin(id) ==
    /\ IF GetDocument(id) = None
       THEN /\ finished' = Finished(0, NewRun("reprocess", "done", id), "http404")
            /\ UNCHANGED <<runs, nextRunId>>
       ELSE /\ nextRunId <= MaxRuns
            /\ runs' = Started(nextRunId, NewRun("reprocess", "deletePages", id))
            /\ nextRunId' = nextRunId + 1
            /\ UNCHANGED finished
    /\ UNCHANGED <<documents, nextDocId, objects, documentPages, embeddings,
                   qaHistory, response>>

\* reprocess: await storage.deleteDocumentPages(id)
ReprocessDeletePages(r) ==
    /\ Running(r) /\ runs[r].pc = "deletePages"
    /\ documentPages' = DeleteDocumentPages(runs[r].documentId)
    /\ runs' = [runs EXCEPT ![r].pc = "deleteEmbeddings"]
    /\ UNCHANGED <<documents, nextDocId, objects, embeddings, qaHistory, response, nextRunId, finished>>

\* reprocess: await storage.deleteDocumentEmbeddings(id)
ReprocessDeleteEmbeddings(r) ==
    /\ Running(r) /\ runs[r].pc = "deleteEmbeddings"
    /\ embeddings' = DeleteDocumentEmbeddings(runs[r].documentId)
    /\ runs' = [runs EXCEPT ![r].pc = "reset"]
    /\ UNCHANGED <<documents, nextDocId, objects, documentPages, qaHistory, response, nextRunId, finished>>

\* reprocess: await storage.updateDocument(id, {processingStatus: "pending", ...: null}),
\* then processDocument(id) is started and the handler answers
ReprocessReset(r) ==
    /\ Running(r) /\ runs[r].pc = "reset"
    /\ documents' = UpdateDocument(runs[r].documentId, ResetUpdate)
    /\ runs' = [runs EXCEPT ![r].pc = "start"]
    /\ UNCHANGED <<nextDocId, objects, documentPages, embeddings, qaHistory, response, nextRunId, finished>>

\* reprocess: a storage call of the handler throws; it answers 500 and starts
\* no processDocument
ReprocessThrow(r) ==
    /\ Running(r) /\ runs[r].pc \in {"deletePages", "deleteEmbeddings", "reset"}
    /\ runs' = Returned(r)
    /\ finished' = Finished(r, runs[r], "http500")
    /\ UNCHANGED <<documents, nextDocId, objects, documentPages, embeddings,
                   qaHistory, response, nextRunId>>

\* A delete of the document row alone
DeleteRowOnly(id) ==
    /\ id \in DOMAIN documents
    /\ documents' = DeleteDocument(id)
    /\ UNCHANGED <<documentPages, embeddings, nextDocId, objects, runs, qaHistory,
                   response, nextRunId, finished>>

\* DELETE /api/documents/:id: await storage.deleteDocument(id); the schema's
\* ON DELETE CASCADE removes the document's pages and chunks with it
Delete(id) ==
    /\ id \in DOMAIN documents
    /\ documents' = DeleteDocument(id)
    /\ documentPages' = OnDeleteCascade(documentPages, id)
    /\ embeddings' = OnDeleteCascade(embeddings, id)
    /\ UNCHANGED <<nextDocId, objects, runs, qaHistory, response, nextRunId, finished>>

-----------------------------------------------------------------------------

Next ==
    \/ \E name \in Names, f \in Files \cup {TextFile, NoFile}, put \in PutOutcomes :
            Submit(name, f, put)
    \/ \E id \in 1..MaxDocs : ReprocessBegin(id)
    \/ \E id \in 1..MaxDocs : Delete(id)
    \/ \E r \in 1..MaxRuns :
        \/ RunStart(r)
        \/ \E o \in ParseOutcomes : RunExtract(r, o)
        \/ RunCreatePage(r)
        \/ RunCreateEmbedding(r)
        \/ \E reply \in ClassifyReplies : RunComplete(r, reply)
        \/ RunThrow(r)
        \/ RunCatch(r)
        \/ RunCatchThrow(r)
        \/ ReprocessDeletePages(r)
        \/ ReprocessDeleteEmbeddings(r)
        \/ ReprocessReset(r)
        \/ ReprocessThrow(r)

Spec == Init /\ [][Next]_vars

\* The same program on uploads of one image, with a reprocess request for an
\* id no document has: the storage faults, the deletions and the
\* interleavings on one kind of file
FaultFile == [fileType |-> "image/png", text |-> <<>>, total |-> 0]

NextFault ==
    \/ \E name \in Names : Submit(name, FaultFile, "stored")
    \/ \E id \in 1..(MaxDocs + 1) : ReprocessBegin(id)
    \/ \E id \in 1..MaxDocs : Delete(id)
    \/ \E r \in 1..MaxRuns :
        \/ RunStart(r)
        \/ RunExtract(r, "ok")
        \/ RunCreatePage(r)
        \/ RunCreateEmbedding(r)
        \/ RunComplete(r, [type |-> "text", text |-> "a report"])
        \/ RunThrow(r)
        \/ RunCatch(r)
        \/ RunCatchThrow(r)
        \/ ReprocessDeletePages(r)
        \/ ReprocessDeleteEmbeddings(r)
        \/ ReprocessReset(r)
        \/ ReprocessThrow(r)

SpecFault == Init /\ [][NextFault]_vars

\* The uploads alone, whatever is sent and whatever the object store does,
\* and the processDocument invocations they start
NextUpload ==
    \/ \E name \in Names, f \in RaceFiles \cup {TextFile, NoFile}, put \in PutOutcomes :
            Submit(name, f, put)
    \/ \E r \in 1..MaxRuns :
        \/ RunStart(r)
        \/ \E o \in ParseOutcomes : RunExtract(r, o)
        \/ RunCreatePage(r)
        \/ RunCreateEmbedding(r)
        \/ RunComplete(r, [type |-> "text", text |-> "a report"])
        \/ RunThrow(r)
        \/ RunCatch(r)
        \/ RunCatchThrow(r)

SpecUpload == Init /\ [][NextUpload]_vars

\* The uploads that are stored and their processDocument invocations when
\* no storage call throws, no document is reprocessed or deleted: every
\* document is processed by one invocation
NextRun ==
    \/ \E name \in Names, f \in RunFiles : Submit(name, f, "stored")
    \/ \E r \in 1..MaxRuns :
        \/ RunStart(r)
        \/ \E o \in ParseOutcomes : RunExtract(r, o)
        \/ RunCreatePage(r)
        \/ RunCreateEmbedding(r)
        \/ \E reply \in ClassifyReplies : RunComplete(r, reply)

SpecRun == Init /\ [][NextRun]_vars

\* The same program when no storage or object-store call throws and no
\* document is deleted: the interleavings of upload, reprocess and the
\* processDocument invocations, whatever the PDF parser does
NextRace ==
    \/ \E name \in Names, f \in RaceFiles : Submit(name, f, "stored")
    \/ \E id \in DOMAIN documents : ReprocessBegin(id)
    \/ \E r \in 1..MaxRuns :
        \/ RunStart(r)
        \/ \E o \in ParseOutcomes : RunExtract(r, o)
        \/ RunCreatePage(r)
        \/ RunCreateEmbedding(r)
        \/ \E reply \in ClassifyReplies : RunComplete(r, reply)
        \/ ReprocessDeletePages(r)
        \/ ReprocessDeleteEmbeddings(r)
        \/ ReprocessReset(r)

SpecRace == Init /\ [][NextRace]_vars

\* Uploads and reprocess requests whose storage writes all succeed, while the
\* read of the binary from object storage can fail
NextSettle ==
    \/ \E name \in Names, f \in RaceFiles : Submit(name, f, "stored")
    \/ \E id \in DOMAIN documents : ReprocessBegin(id)
    \/ \E r \in 1..MaxRuns :
        \/ RunStart(r)
        \/ RunExtract(r, "ok")
        \/ RunCreatePage(r)
        \/ RunCreateEmbedding(r)
        \/ RunComplete(r, [type |-> "text", text |-> "a report"])
        \/ Running(r) /\ runs[r].pc = "load" /\ RunThrow(r)
        \/ RunCatch(r)
        \/ ReprocessDeletePages(r)
        \/ ReprocessDeleteEmbeddings(r)
        \/ ReprocessReset(r)

SpecSettle == Init /\ [][NextSettle]_vars

-----------------------------------------------------------------------------
(* storage.ts: the reads of search and ask *)

\* Letter case folding, on the characters of the texts here
Lower(c) ==
    CASE c = "X" -> "x"
      [] c = "Y" -> "y"
      [] c = "E" -> "e"
      [] c = "F" -> "f"
      [] c = "I" -> "i"
      [] c = "U" -> "u"
      [] OTHER -> c

LowerText(t) == [k \in 1..Len(t) |-> Lower(t[k])]

\* The words of a text, case folded: its maximal runs of characters other
\* than the space.  (What to_tsvector / plainto_tsquery keep of a text whose
\* words are neither stop words nor inflected.)
Words(t) ==
    LET starts == { i \in 1..Len(t) : t[i] # " " /\ (i = 1 \/ t[i - 1] = " ") }
        EndOf(i) == CHOOSE j \in i..Len(t) :
                        /\ (j = Len(t) \/ t[j + 1] = " ")
                        /\ \A k \in i..j : t[k] # " "
    IN  { LowerText(SubSeq(t, i, EndOf(i))) : i \in starts }

\* to_tsvector('english', text) @@ plainto_tsquery('english', query): the query
\* has a word and the text holds every word of the query
FullTextMatch(text, query) ==
    Words(query) # {} /\ Words(query) \subseteq Words(text)

\* text ILIKE '%query%': the query is a substring of the text, letter case aside
ILike(text, query) ==
    \E s \in 0..(Len(text) - Len(query)) :
        LowerText(SubSeq(text, s + 1, s + Len(query))) = LowerText(query)

\* The subsets of S with k elements
RECURSIVE KSubsets(_, _)
KSubsets(S, k) ==
    IF k = 0 THEN { {} }
    ELSE IF S = {} THEN {}
    ELSE LET x == CHOOSE y \in S : TRUE
         IN  KSubsets(S \ {x}, k) \cup { T \cup {x} : T \in KSubsets(S \ {x}, k - 1) }

\* A SELECT without its LIMIT: all the rows
LimitAll(rows, n) == { rows }

\* SELECT ... LIMIT n without ORDER BY: any n of the rows, all of them when
\* there are no more than n
Limit(rows, n) ==
    IF Cardinality(rows) <= n THEN { rows }
    ELSE { rows \ dropped : dropped \in KSubsets(rows, Cardinality(rows) - n) }

\* The rows of the two queries of searchEmbeddings
FullTextRows(query) == { e \in embeddings : FullTextMatch(e.chunkText, query) }
ILikeRows(query) == { e \in embeddings : ILike(e.chunkText, query) }

\* A searchEmbeddings that makes the full-text query only
SearchEmbeddingsFullTextOnly(query, limit) == Limit(FullTextRows(query), limit)

\* searchEmbeddings(query, limit): the results it can return.  The full-text
\* rows when there are any, else the rows whose chunk text holds the query
SearchEmbeddings(query, limit) ==
    IF FullTextRows(query) # {}
    THEN Limit(FullTextRows(query), limit)
    ELSE Limit(ILikeRows(query), limit)

\* The ids of a set of documents, newest upload first (uploadDate grows with the id)
NewestFirst(ids) ==
    [k \in 1..Cardinality(ids) |->
        CHOOSE d \in ids : Cardinality({ e \in ids : e > d }) = k - 1]

\* filters?.f is truthy
Given(filters, f) == f \in DOMAIN filters /\ filters[f] # <<>> /\ filters[f] # ""

\* getDocuments(filters): the ids of the rows that pass every filter given,
\* ordered by uploadDate descending
GetDocuments(filters) ==
    NewestFirst({ d \in DOMAIN documents :
        /\ (Given(filters, "type") /\ filters.type # "all")
              => documents[d].documentType = Some(filters.type)
        /\ (Given(filters, "status") /\ filters.status # "all")
              => documents[d].processingStatus = filters.status
        /\ Given(filters, "search")
              => \/ ILike(documents[d].title, filters.search)
                 \/ ILike(documents[d].originalFilename, filters.search) })

\* getDocumentPages(documentId) as the handlers read it: ordered by pageNumber.
\* Rows of one page number, which two invocations on one document leave, hold
\* the same text and are put in the order of their insertion.
PagesInOrder(id) ==
    LET pages == GetDocumentPages(id)
        Before(q, p) == \/ q.pageNumber < p.pageNumber
                        \/ q.pageNumber = p.pageNumber /\ q.run < p.run
    IN  [k \in 1..Cardinality(pages) |->
            CHOOSE p \in pages :
                Cardinality({ q \in pages : Before(q, p) }) = k - 1]

\* createQaHistory(qa)
CreateQaHistory(qa) == Append(qaHistory, qa)

\* A history read that returns every entry
GetQaHistoryAll(limit) ==
    [k \in 1..Len(qaHistory) |->
        [id |-> Len(qaHistory) - k + 1] @@ qaHistory[Len(qaHistory) - k + 1]]

\* getQaHistory(limit): ORDER BY createdAt DESC LIMIT limit; the entries are
\* told apart by their serial id, which is their position in creation order
GetQaHistory(limit) ==
    [k \in 1..Min(limit, Len(qaHistory)) |->
        [id |-> Len(qaHistory) - k + 1] @@ qaHistory[Len(qaHistory) - k + 1]]

-----------------------------------------------------------------------------
(* routes.ts: the reply of the generation service and its parsing *)

\* Fragments of a reply: a run of prose without a brace, and the members of
\* the JSON object the prompt asks for
Prose == "see page 2"
Members == "\"answer\":\"a\",\"citations\":[],\"insufficientEvidence\":false"

\* content.text of the replies: prose only; the object asked for, alone and
\* inside prose; braces around prose; the object followed by braces around
\* prose; a closing brace before an opening one; the empty text
ReplyTexts ==
    { <<Prose>>,
      <<"{", Members, "}">>,
      <<Prose, "{", Members, "}", Prose>>,
      <<"{", Prose, "}">>,
      <<"{", Members, "}", Prose, "{", Prose, "}">>,
      <<"}", Prose, "{">>,
      <<>> }

\* What anthropic.messages.create yields: a text block, a block of another
\* type, or an error thrown
Replies ==
    { [type |-> "text", text |-> t] : t \in ReplyTexts }
        \cup { [type |-> "tool_use", text |-> <<>>], [type |-> "error", text |-> <<>>] }

\* text.match(/\{[\s\S]*\}/): the span from the first "{" to the last "}" after
\* it, or null
JsonMatch(text) ==
    LET opens == { k \in 1..Len(text) : text[k] = "{" }
        first == CHOOSE k \in opens : \A j \in opens : k <= j
        closes == { k \in 1..Len(text) : text[k] = "}" /\ k > first }
        last == CHOOSE k \in closes : \A j \in closes : j <= k
    IN  IF opens = {} THEN None
        ELSE IF closes = {} THEN None
        ELSE Some(SubSeq(text, first, last))

\* JSON.parse of a matched span of the replies above: the object when the span
\* is one object of the members asked for, None when it throws a SyntaxError
JsonParse(span) ==
    IF span = <<"{", Members, "}">>
    THEN Some([ answer |-> <<"a">>, citations |-> <<>>, insufficientEvidence |-> FALSE ])
    ELSE None

\* The fixed answers of the ask handlers
NoDocumentsAnswer ==
    <<"No documents have been uploaded yet. Please upload some documents first.">>
NoContentAnswer ==
    <<"I cannot answer this question - the documents appear to have no extractable text content.">>
NoPageTextAnswer ==
    <<"No text content available in this document to answer your question.">>
NoPreview == <<"No preview available">>

-----------------------------------------------------------------------------
(* routes.ts: POST /api/search, POST /api/qa/ask, POST /api/documents/:id/ask *)

\* The result the search handler builds for a chunk row
ChunkResult(emb) ==
    LET doc == GetDocument(emb.documentId)
    IN  [ documentId |-> emb.documentId,
          documentTitle |-> IF doc = None \/ doc[1].title = <<>>
                            THEN <<"Unknown">> ELSE doc[1].title,
          documentType |-> IF doc = None THEN None ELSE doc[1].documentType,
          pageNumber |-> emb.pageNumber,
          chunkText |-> emb.chunkText,
          score |-> 1 ]

\* firstPage?.pageText?.slice(0, 300) || doc.fullText?.slice(0, 300) || "No preview available"
PreviewOf(id) ==
    LET pages == PagesInOrder(id)
        fromPage == IF Len(pages) > 0 THEN Slice(pages[1].pageText, 0, PreviewLimit)
                    ELSE <<>>
        fromFullText == IF documents[id].fullText # None
                        THEN Slice(documents[id].fullText[1], 0, PreviewLimit)
                        ELSE <<>>
    IN  IF fromPage # <<>> THEN fromPage
        ELSE IF fromFullText # <<>> THEN fromFullText
        ELSE NoPreview

\* The pseudo-result the search handler builds for a document matched by title
TitleResult(id) ==
    [ documentId |-> id,
      documentTitle |-> documents[id].title,
      documentType |-> documents[id].documentType,
      pageNumber |-> 1,
      chunkText |-> PreviewOf(id),
      score |-> 1 ]

\* allDocs.slice(0, n)
FirstOf(seq, n) == SubSeq(seq, 1, Min(n, Len(seq)))

\* POST /api/search.  "tier" names the branch that built the results: the
\* chunk rows of searchEmbeddings (a set, their order being the database's),
\* or the documents matched by title or file name.  No handler of this
\* section writes a document, a page or a chunk, so the reads of one request
\* see one store.
Search(query) ==
    /\ IF query = <<>>
       THEN response' = [ kind |-> "search", query |-> query, status |-> 400,
                          tier |-> "none", results |-> <<>>, total |-> 0 ]
       ELSE \E found \in SearchEmbeddings(query, SearchLimit) :
              IF found = {}
              THEN LET allDocs == GetDocuments([search |-> query])
                       shown == FirstOf(allDocs, TitleFallbackLimit)
                       results == [k \in 1..Len(shown) |-> TitleResult(shown[k])]
                   IN  response' = [ kind |-> "search", query |-> query,
                                     status |-> 200, tier |-> "title",
                                     results |-> results, total |-> Len(results) ]
              ELSE LET results == { ChunkResult(emb) : emb \in found }
                   IN  response' = [ kind |-> "search", query |-> query,
                                     status |-> 200, tier |-> "chunks",
                                     results |-> results,
                                     total |-> Cardinality(found) ]
    /\ UNCHANGED <<documents, nextDocId, objects, documentPages, embeddings,
                   runs, nextRunId, finished, qaHistory>>

\* The document has extracted text: a page whose text is not empty, or a full text
HasText(d) ==
    \/ \E page \in GetDocumentPages(d) : page.pageText # <<>>
    \/ documents[d].fullText \notin { None, Some(<<>>) }

\* The response of an ask handler.  "generation" tells whether the request to
\* the generation service was issued, "reply" is what it yielded, "consulted"
\* the document ids of the context, "docs" the ids of the documents the store
\* held when the request was served and "withText" those of them that had
\* text
AskResponse(kind, question, status, body, generation, reply, consulted) ==
    [ kind |-> kind, question |-> question, status |-> status, body |-> body,
      generation |-> generation, reply |-> reply, consulted |-> consulted,
      historyBefore |-> Len(qaHistory), docs |-> DOMAIN documents,
      withText |-> { d \in DOMAIN documents : HasText(d) } ]

NoReply == [type |-> "none", text |-> <<>>]
ErrorBody == [error |-> "Failed to answer question"]

\* The context entries of the fallback branch of the corpus-wide ask: for
\* each of the first 5 documents its pages that have text, or its full text
\* when it has no page
AllContent(allDocs) ==
    LET Of(id) ==
            LET pages == PagesInOrder(id)
                withText == SelectSeq(pages, LAMBDA p : p.pageText # <<>>)
            IN  IF Len(pages) = 0 /\ documents[id].fullText # None
                                  /\ documents[id].fullText # Some(<<>>)
                THEN << [ documentId |-> id, documentTitle |-> documents[id].title,
                          pageNumber |-> 1, chunkText |-> documents[id].fullText[1] ] >>
                ELSE [k \in 1..Len(withText) |->
                        [ documentId |-> id, documentTitle |-> documents[id].title,
                          pageNumber |-> withText[k].pageNumber,
                          chunkText |-> withText[k].pageText ]]
        shown == FirstOf(allDocs, FallbackDocs)
        Upto[k \in 0..Len(shown)] ==
            IF k = 0 THEN <<>> ELSE Upto[k - 1] \o Of(shown[k])
    IN  Upto[Len(shown)]

\* The entries of the fallback branch's context,
\* `[Source ${i + 1}: ${c.documentTitle}, Page ${c.pageNumber}]\n${c.chunkText}`,
\* joined by "\n\n---\n\n"
JoinedContext(allContent) ==
    LET RECURSIVE Digits(_)
        Digits(n) ==
            IF n < 10
            THEN << <<"0", "1", "2", "3", "4", "5", "6", "7", "8", "9">>[n + 1] >>
            ELSE Digits(n \div 10) \o Digits(n % 10)
        Entry(k) ==
            <<"[", "S", "o", "u", "r", "c", "e", " ">> \o Digits(k) \o <<":", " ">>
                \o allContent[k].documentTitle
                \o <<",", " ", "P", "a", "g", "e", " ">>
                \o Digits(allContent[k].pageNumber) \o <<"]", "\n">>
                \o allContent[k].chunkText
        Joined[k \in 0..Len(allContent)] ==
            IF k = 0 THEN <<>>
            ELSE IF k = 1 THEN Entry(1)
            ELSE Joined[k - 1] \o <<"\n", "\n", "-", "-", "-", "\n", "\n">> \o Entry(k)
    IN  Joined[Len(allContent)]

\* A context that is not cut
FallbackContextWhole(allContent) == JoinedContext(allContent)

\* The context of the fallback branch: the joined entries, .slice(0, 50000)
FallbackContext(allContent) == Slice(JoinedContext(allContent), 0, ContextLimit)

\* Array.from(new Set(ids)): each id once, in the order of its first
\* occurrence
Distinct(ids) ==
    LET first == { k \in 1..Len(ids) : \A j \in 1..(k - 1) : ids[j] # ids[k] }
    IN  [i \in 1..Cardinality(first) |->
            ids[CHOOSE k \in first : Cardinality({ j \in first : j < k }) = i - 1]]

\* The end of both branches of the corpus-wide ask, from the reply on: a
\* reply that is no text block throws, as does a matched span JSON.parse
\* rejects (the catch answers 500); the history entry is created and the
\* parsed object, or the raw text, is the response.  "sent" tells what the
\* branch passed on: the length of the context of the fallback branch and the
\* array of document ids it hands to createQaHistory
AnswerCorpus(question, reply, consulted, sent) ==
    LET jsonMatch == JsonMatch(reply.text)
        parsed == IF jsonMatch = None THEN None ELSE JsonParse(jsonMatch[1])
        body == IF jsonMatch = None
                THEN [ answer |-> reply.text, citations |-> <<>>,
                       insufficientEvidence |-> FALSE ]
                ELSE parsed[1]
    IN  IF reply.type # "text" \/ (jsonMatch # None /\ parsed = None)
        THEN /\ response' = sent @@ AskResponse("ask", question, 500, ErrorBody, TRUE,
                                                reply, consulted)
             /\ UNCHANGED qaHistory
        ELSE /\ qaHistory' = CreateQaHistory(
                    [ question |-> question, answer |-> body.answer,
                      citations |-> body.citations, documentIds |-> consulted ])
             /\ response' = sent @@ AskResponse("ask", question, 200, body, TRUE,
                                                reply, consulted)

\* A short-circuit body that claims evidence
EvidenceClaimed(answer) ==
    [ answer |-> answer, citations |-> <<>>, insufficientEvidence |-> FALSE ]

\* The body of a short-circuit of POST /api/qa/ask
InsufficientEvidence(answer) ==
    [ answer |-> answer, citations |-> <<>>, insufficientEvidence |-> TRUE ]

\* POST /api/qa/ask
CorpusAskRequest(question, reply) ==
    /\ IF question = <<>>
       THEN /\ response' = AskResponse("ask", question, 400,
                                       [error |-> "Question is required"],
                                       FALSE, NoReply, {})
            /\ UNCHANGED qaHistory
       ELSE \E relevantChunks \in SearchEmbeddings(question, AskLimit) :
              IF relevantChunks = {}
              THEN LET allDocs == GetDocuments(<<>>)
                       allContent == AllContent(allDocs)
                   IN  IF Len(allDocs) = 0
                       THEN /\ response' = AskResponse("ask", question, 200,
                                    InsufficientEvidence(NoDocumentsAnswer),
                                    FALSE, NoReply, {})
                            /\ UNCHANGED qaHistory
                       ELSE IF Len(allContent) = 0
                       THEN /\ response' = AskResponse("ask", question, 200,
                                    InsufficientEvidence(NoContentAnswer),
                                    FALSE, NoReply, {})
                            /\ UNCHANGED qaHistory
                       ELSE LET documentIds ==
                                    Distinct([k \in 1..Len(allContent) |->
                                                 allContent[k].documentId])
                            IN  AnswerCorpus(question, reply,
                                    { documentIds[k] : k \in 1..Len(documentIds) },
                                    [ branch |-> "fallback",
                                      contextLength |-> Len(FallbackContext(allContent)),
                                      documentIds |-> documentIds ])
              ELSE AnswerCorpus(question, reply,
                                { chunk.documentId : chunk \in relevantChunks },
                                [ branch |-> "chunks" ])
    /\ UNCHANGED <<documents, nextDocId, objects, documentPages, embeddings,
                   runs, nextRunId, finished>>

\* POST /api/qa/ask while fewer than MaxAsks asks are recorded
CorpusAsk(question, reply) ==
    /\ Len(qaHistory) < MaxAsks
    /\ CorpusAskRequest(question, reply)

\* A no-text response that went to the generation service
NoPageTextGenerated(id, question) ==
    AskResponse("documentAsk", question, 200,
                [answer |-> <<>>, citations |-> <<>>], TRUE,
                [type |-> "text", text |-> <<>>], {id})

\* A no-text response that is an error
NoPageTextBadRequest(id, question) ==
    AskResponse("documentAsk", question, 400,
                [error |-> "No text content available"], FALSE, NoReply, {id})

\* The response of POST /api/documents/:id/ask when pagesWithText is empty
NoPageText(id, question) ==
    AskResponse("documentAsk", question, 200,
                [answer |-> NoPageTextAnswer, citations |-> <<>>], FALSE, NoReply, {id})

\* A document-scoped ask that records its question like the corpus-wide ask
DocumentAskRecorded(id, question, reply) ==
    /\ response' = [id |-> id, pagesWithText |-> 0] @@
                        AskResponse("documentAsk", question, 200,
                                    [answer |-> reply.text, citations |-> <<>>],
                                    TRUE, reply, {id})
    /\ qaHistory' = CreateQaHistory([ question |-> question, answer |-> reply.text,
                                      citations |-> <<>>, documentIds |-> {id} ])
    /\ UNCHANGED <<documents, nextDocId, objects, documentPages, embeddings,
                   runs, nextRunId, finished>>

\* POST /api/documents/:id/ask.  The response also tells the id asked about
\* and pagesWithText.length
DocumentAsk(id, question, reply) ==
    /\ LET pagesWithText == SelectSeq(PagesInOrder(id), LAMBDA p : p.pageText # <<>>)
           jsonMatch == JsonMatch(reply.text)
           parsed == IF jsonMatch = None THEN None ELSE JsonParse(jsonMatch[1])
       IN  response' = [id |-> id, pagesWithText |-> Len(pagesWithText)] @@
             IF question = <<>>
             THEN AskResponse("documentAsk", question, 400,
                              [error |-> "Question is required"], FALSE, NoReply, {})
             ELSE IF GetDocument(id) = None
             THEN AskResponse("documentAsk", question, 404,
                              [error |-> "Document not found"], FALSE, NoReply, {})
             ELSE IF Len(pagesWithText) = 0
             THEN NoPageText(id, question)
             ELSE IF reply.type # "text" \/ (jsonMatch # None /\ parsed = None)
             THEN AskResponse("documentAsk", question, 500, ErrorBody, TRUE, reply, {id})
             ELSE IF jsonMatch = None
             THEN AskResponse("documentAsk", question, 200,
                              [answer |-> reply.text, citations |-> <<>>],
                              TRUE, reply, {id})
             ELSE AskResponse("documentAsk", question, 200, parsed[1], TRUE, reply, {id})
    /\ UNCHANGED <<documents, nextDocId, objects, documentPages, embeddings,
                   runs, nextRunId, finished, qaHistory>>

-----------------------------------------------------------------------------
(* The corpora that are searched *)

\* An upload: file.originalname and the file
SearchUploads ==
    { [ name |-> <<"x", ".", "p">>,
        file |-> [fileType |-> "application/pdf", text |-> <<"x", "y">>, total |-> 1] ],
      [ name |-> <<"y", ".", "p">>,
        file |-> [fileType |-> "application/pdf", text |-> <<"x", " ", "x">>, total |-> 1] ],
      [ name |-> <<"x", "y">>,
        file |-> [fileType |-> "application/pdf", text |-> <<>>, total |-> 0] ],
      [ name |-> <<"y", ".", "p">>,
        file |-> [fileType |-> "image/png", text |-> <<>>, total |-> 0] ] }

\* The upload sequences of the corpora: at most one upload of one kind, then
\* up to MaxCorpus uploads of one kind
UploadLists ==
    { first \o [k \in 1..n |-> u] :
        first \in { <<>> } \cup { <<v>> : v \in SearchUploads },
        u \in SearchUploads, n \in 0..MaxCorpus }

\* The query of a search request, the question of an ask request, and the
\* document ids asked about: the two oldest documents and an id no document has
Queries == { <<>>, <<"x">>, <<"X">>, <<"y">>, <<" ">>, <<"x", " ", "y">> }
Questions == { <<>>, <<"x">> }
AskedIds == { 1, 2, MaxCorpus + 1 }

\* The store after each upload of the list was processed by one
\* processDocument invocation that ran alone, its PDF parsed and its
\* classification "other"
Extracted(upload) == Extract(upload.file.fileType, upload.file, "ok")

WrittenIndices(pageTexts) == { i \in 0..(Len(pageTexts) - 1) : ~Blank(pageTexts[i + 1]) }

AskedCorpus(uploads, history) ==
        /\ documents = [d \in 1..Len(uploads) |->
                SetColumns(SetColumns(NewDocument(uploads[d].name, uploads[d].file.fileType),
                                      [processingStatus |-> "processing"]),
                           CompletedUpdate(Extracted(uploads[d]), "other"))]
        /\ nextDocId = Len(uploads) + 1
        /\ objects = [d \in 1..Len(uploads) |-> uploads[d].file]
        /\ documentPages =
                UNION { { PageRow(d, d, Extracted(uploads[d]).pageTexts, i) :
                            i \in WrittenIndices(Extracted(uploads[d]).pageTexts) } :
                        d \in 1..Len(uploads) }
        /\ embeddings =
                UNION { { ChunkRow(d, d, Extracted(uploads[d]).pageTexts, i) :
                            i \in WrittenIndices(Extracted(uploads[d]).pageTexts) } :
                        d \in 1..Len(uploads) }
        /\ runs = <<>>
        /\ nextRunId = Len(uploads) + 1
        /\ finished =
                IF Len(uploads) = 0 THEN Finished(0, NewRun("none", "done", 0), "none")
                ELSE [ run |-> Len(uploads), documentId |-> Len(uploads),
                       parse |-> IF uploads[Len(uploads)].file.fileType = "application/pdf"
                                 THEN "ok" ELSE "none",
                       outcome |-> "completed" ]
        /\ qaHistory = history
        /\ response = [kind |-> "none"]

\* Such a store before any question was asked
Corpus(uploads) == AskedCorpus(uploads, <<>>)

InitSearch ==
    \E uploads \in UploadLists : Len(uploads) <= MaxCorpus /\ Corpus(uploads)

\* The corpora whose documents are deleted: every upload sequence of at most
\* MaxDeleted uploads
DeletedUploadLists ==
    UNION { [1..n -> SearchUploads] : n \in 0..MaxDeleted }

InitDeleted == \E uploads \in DeletedUploadLists : Corpus(uploads)

\* The search requests on a corpus
NextSearch == \E query \in Queries : Search(query)

SpecSearch == InitSearch /\ [][NextSearch]_vars

\* The ask requests on a corpus
NextAsk ==
    \/ \E question \in Questions, reply \in Replies : CorpusAsk(question, reply)
    \/ \E id \in AskedIds, question \in Questions, reply \in Replies :
            DocumentAsk(id, question, reply)

SpecAsk == InitSearch /\ [][NextAsk]_vars

\* The corpus-wide asks on a corpus whose documents are being deleted
NextCorpusAsk ==
    \/ \E question \in Questions, reply \in Replies : CorpusAsk(question, reply)
    \/ \E id \in 1..MaxDeleted : Delete(id)

SpecCorpusAsk == InitDeleted /\ [][NextCorpusAsk]_vars

\* The corpus-wide asks while uploads are processed and reprocessed
NextAskRace ==
    \/ \E upload \in SearchUploads : Submit(upload.name, upload.file, "stored")
    \/ \E id \in DOMAIN documents : ReprocessBegin(id)
    \/ \E r \in 1..MaxRuns :
        \/ RunStart(r)
        \/ RunExtract(r, "ok")
        \/ RunCreatePage(r)
        \/ RunCreateEmbedding(r)
        \/ RunComplete(r, [type |-> "text", text |-> "a report"])
        \/ ReprocessDeletePages(r)
        \/ ReprocessDeleteEmbeddings(r)
        \/ ReprocessReset(r)
    \/ \E question \in Questions, reply \in Replies : CorpusAsk(question, reply)

SpecAskRace == Init /\ [][NextAskRace]_vars

\* The document-scoped asks on a corpus whose documents are being deleted
NextDocumentAsk ==
    \/ \E id \in AskedIds, question \in Questions, reply \in Replies :
            DocumentAsk(id, question, reply)
    \/ \E id \in AskedIds : Delete(id)

SpecDocumentAsk == InitSearch /\ [][NextDocumentAsk]_vars

-----------------------------------------------------------------------------
(* Properties *)

Status(d) == documents[d].processingStatus

\* The status changes the lifecycle allows: pending -> processing,
\* processing -> completed | failed, and anything -> pending (a reprocess)
StatusStep(old, new) ==
    \/ new = old
    \/ new = "pending"
    \/ old = "pending" /\ new = "processing"
    \/ old = "processing" /\ new \in {"completed", "failed"}

\* C1: for every document, processingStatus changes only along
\* pending -> processing -> completed or pending -> processing -> failed; the
\* only other change is a reprocess putting it back to pending.
C1_StatusOrder ==
    [][\A d \in DOMAIN documents \cap DOMAIN documents' :
          StatusStep(documents[d].processingStatus,
                     documents'[d].processingStatus)]_vars

\* The rows of a document: its pages and its chunks
RowsOf(d) == GetDocumentPages(d) \cup GetEmbeddings(d)

\* C2: the pages and chunks a document holds were all written by one
\* processDocument invocation (a reprocess deleted those of every earlier
\* one before the new ones were written), and no document holds two chunks
\* with the same chunkIndex.
C2_ReprocessReplacesRows ==
    /\ \A d \in 1..MaxDocs : \A x, y \in RowsOf(d) : x.run = y.run
    /\ \A e1, e2 \in embeddings :
          (e1.documentId = e2.documentId /\ e1.chunkIndex = e2.chunkIndex) => e1 = e2

\* The chunk indices / page numbers a document holds
ChunkIndices(d) == { e.chunkIndex : e \in GetEmbeddings(d) }
PageNumbers(d) == { p.pageNumber : p \in GetDocumentPages(d) }

\* C3 as claimed: for every document, the chunk indices of its stored chunks
\* are 0, 1, 2, ... with no gaps and no repeats.
C3_ChunkIndicesDense ==
    \A d \in 1..MaxDocs :
        ChunkIndices(d) = 0..(Cardinality(GetEmbeddings(d)) - 1)

\* The page texts some outcome of the parser calls extracts from document d's file
ExtractionsOf(d) ==
    { Extract(objects[d].fileType, objects[d], o).pageTexts : o \in ParseOutcomes }

\* C3 as amended: every stored chunk has chunkIndex = pageNumber - 1, the
\* 0-based position in extraction order of a page text that is not blank, of
\* which it holds the first 2000 characters; the chunks one invocation writes
\* have pairwise distinct indices.  (Indices skip the blank page slices.)
C3_ChunkIndexIsPagePosition ==
    /\ \A e \in embeddings :
          /\ e.chunkIndex = e.pageNumber - 1
          /\ e.chunkIndex >= 0
          /\ \E pageTexts \in ExtractionsOf(e.documentId) :
                /\ e.chunkIndex < Len(pageTexts)
                /\ ~Blank(pageTexts[e.chunkIndex + 1])
                /\ e.chunkText = Slice(pageTexts[e.chunkIndex + 1], 0, ChunkLimit)
          /\ e.run \in DOMAIN runs =>
                /\ e.chunkIndex <= runs[e.run].i
                /\ e.chunkIndex < Len(runs[e.run].pageTexts)
                /\ e.chunkText = Slice(runs[e.run].pageTexts[e.chunkIndex + 1], 0, ChunkLimit)
    /\ \A e1, e2 \in embeddings :
          (e1.run = e2.run /\ e1.chunkIndex = e2.chunkIndex) => e1 = e2

\* C3's case: a completed document, processed once with its PDF parsed, whose
\* first page slice was blank: its one chunk has index 1
C3_Witness ==
    \E d \in DOMAIN documents :
        /\ Status(d) = "completed"
        /\ finished.documentId = d /\ finished.parse = "ok"
        /\ ChunkIndices(d) = {1}
        /\ Blank(SplitPages(objects[d].text, PageCountOf(objects[d].total))[1])
        /\ \A e \in GetEmbeddings(d) : e.run = finished.run

\* C4 as claimed: while the one invocation that wrote a document's pages is in
\* flight and its PDF extraction succeeded, the page numbers of the document's
\* pages are pairwise distinct and exactly 1..k.
C4_PageNumbersDense ==
    \A r \in DOMAIN runs :
        (runs[r].parse = "ok" /\ \A p \in GetDocumentPages(runs[r].documentId) : p.run = r)
        => /\ PageNumbers(runs[r].documentId) =
                  1..Cardinality(GetDocumentPages(runs[r].documentId))

\* C4 as amended: every page record has a page number >= 1 that is the 1-based
\* position in extraction order of a page text that is not blank, which it
\* holds; the pages one invocation writes have pairwise distinct numbers.
\* (Numbers skip the blank page slices.)
C4_PageNumberIsPagePosition ==
    /\ \A p \in documentPages :
          /\ p.pageNumber >= 1
          /\ ~Blank(p.pageText)
          /\ \E pageTexts \in ExtractionsOf(p.documentId) :
                /\ p.pageNumber <= Len(pageTexts)
                /\ p.pageText = pageTexts[p.pageNumber]
          /\ p.run \in DOMAIN runs =>
                /\ p.pageNumber <= runs[p.run].i + 1
                /\ p.pageNumber <= Len(runs[p.run].pageTexts)
                /\ p.pageText = runs[p.run].pageTexts[p.pageNumber]
    /\ \A p1, p2 \in documentPages :
          (p1.run = p2.run /\ p1.pageNumber = p2.pageNumber) => p1 = p2

\* C4's case: a completed document, processed once with its PDF parsed, whose
\* first page slice was blank: its one page is numbered 2
C4_Witness ==
    \E d \in DOMAIN documents :
        /\ Status(d) = "completed"
        /\ documents[d].pageCount = Some(2)
        /\ finished.documentId = d /\ finished.parse = "ok"
        /\ PageNumbers(d) = {2}
        /\ \A p \in GetDocumentPages(d) : p.run = finished.run

\* C5: errorMessage is non-null only when processingStatus = failed.
C5_ErrorOnlyWhenFailed ==
    \A d \in DOMAIN documents :
        Status(d) # "failed" => documents[d].errorMessage = None

\* A processDocument invocation (not a reprocess handler that answered 500
\* before starting one) has returned
RunReturned == finished.run # 0 /\ finished.outcome # "http500"

\* C6: a processDocument invocation that has returned, on a document that
\* exists, has made exactly one terminal write (status completed or failed).
C6_OneTerminalWrite ==
    (RunReturned /\ finished.documentId \in DOMAIN documents)
        => finished.outcome \in {"completed", "failed"}

\* The page record and the chunk record a run writes for the PDF failure text
FailurePage(r, d) ==
    [ run |-> r, documentId |-> d, pageNumber |-> 1, pageText |-> PdfFailedText ]

FailureChunk(r, d) ==
    [ run |-> r, documentId |-> d, pageNumber |-> 1, chunkText |-> PdfFailedText,
      chunkIndex |-> 0, tokenCount |-> Ceil(Len(PdfFailedText), CharsPerToken) ]

\* C7: a run on a PDF whose parsing throws, no other call of the run throwing,
\* writes exactly one page record and one chunk, both holding the fixed
\* failure text, and ends with the status write "completed".
C7_PdfParseFailure ==
    /\ \A r \in DOMAIN runs :
          runs[r].parse = "parseThrows" =>
              /\ runs[r].pageTexts = <<PdfFailedText>>
              /\ runs[r].extractedText = PdfFailedText
              /\ runs[r].pc \in {"page", "chunk", "complete"}
              /\ runs[r].pc = "complete" => runs[r].nPages = 1 /\ runs[r].nChunks = 1
              /\ { p \in documentPages : p.run = r } \subseteq
                      { FailurePage(r, runs[r].documentId) }
              /\ { e \in embeddings : e.run = r } \subseteq
                      { FailureChunk(r, runs[r].documentId) }
    /\ finished.parse = "parseThrows" => finished.outcome = "completed"

\* C7's case: the run on a PDF whose parsing threw has returned; the document
\* is completed and holds the one failure page and the one failure chunk
C7_Witness ==
    /\ finished.parse = "parseThrows" /\ finished.outcome = "completed"
    /\ finished.documentId \in DOMAIN documents
    /\ Status(finished.documentId) = "completed"
    /\ documents[finished.documentId].fullText = Some(PdfFailedText)
    /\ GetDocumentPages(finished.documentId) =
            { FailurePage(finished.run, finished.documentId) }
    /\ GetEmbeddings(finished.documentId) =
            { FailureChunk(finished.run, finished.documentId) }

\* A search request was answered with results
Searched == response.kind = "search" /\ response.status = 200

\* C8 as claimed: in the corpus search, the title fallback (tier 2) runs if
\* and only if the full-text query over chunks (tier 1) returned zero rows,
\* and it returns at most 10 results.
C8_FallbackIffFullTextEmpty ==
    Searched =>
        /\ (response.tier = "title") <=> (FullTextRows(response.query) = {})
        /\ response.tier = "title" => Len(response.results) <= TitleFallbackLimit

\* C8 as amended: the title fallback runs if and only if the chunk search
\* returned zero rows, that is, neither the full-text query nor the
\* case-insensitive substring query over chunk text matched a chunk; it
\* returns the matching documents, newest first, and at most 10 of them.
C8_FallbackIffNoChunkMatches ==
    Searched =>
        /\ (response.tier = "title") <=>
              (FullTextRows(response.query) = {} /\ ILikeRows(response.query) = {})
        /\ response.tier = "title" =>
              /\ Len(response.results) <= TitleFallbackLimit
              /\ response.total = Len(response.results)
              /\ LET matching == GetDocuments([search |-> response.query])
                 IN  /\ Len(response.results) = Min(TitleFallbackLimit, Len(matching))
                     /\ \A k \in 1..Len(response.results) :
                            response.results[k].documentId = matching[k]
        /\ response.tier = "chunks" =>
              /\ response.results # {}
              /\ \A r \in response.results :
                    \E e \in embeddings :
                        /\ r.documentId = e.documentId /\ r.chunkText = e.chunkText
                        /\ \/ FullTextMatch(e.chunkText, response.query)
                           \/ ILike(e.chunkText, response.query)

\* C8's case: more than 10 documents match the query by title, no chunk
\* matches it, and the title fallback answered with 10 results
C8_Witness ==
    /\ Searched /\ response.tier = "title"
    /\ FullTextRows(response.query) = {} /\ ILikeRows(response.query) = {}
    /\ Len(GetDocuments([search |-> response.query])) > TitleFallbackLimit
    /\ Len(response.results) = TitleFallbackLimit

\* A corpus-wide ask issued its request and the generation service returned text
AskedWithText(kind) ==
    /\ response.kind = kind
    /\ response.generation
    /\ response.reply.type = "text"

\* C9: every corpus-wide ask that issued a request to the generation service,
\* in either branch and whatever text the service returned, appended exactly
\* one QaHistory entry holding the question, the answer, the citations and the
\* document ids consulted.
C9_AskRecordsHistory ==
    AskedWithText("ask") =>
        /\ Len(qaHistory) = response.historyBefore + 1
        /\ response.status = 200
        /\ qaHistory[Len(qaHistory)].question = response.question
        /\ qaHistory[Len(qaHistory)].answer = response.body.answer
        /\ qaHistory[Len(qaHistory)].citations = response.body.citations
        /\ qaHistory[Len(qaHistory)].documentIds = response.consulted

\* The raw text holds a parseable JSON object
Parseable(text) ==
    JsonMatch(text) # None /\ JsonParse(JsonMatch(text)[1]) # None

\* C10: for corpus-wide and document-scoped ask, whenever the generation
\* service's raw text is not a parseable JSON object (no braces, or a
\* first-"{"-to-last-"}" span that is not valid JSON), the request does not
\* fail: the response is the raw text as answer with an empty citation list
\* (and insufficientEvidence false for the corpus-wide ask).
C10_UnparseableReplyIsAnswer ==
    \A kind \in {"ask", "documentAsk"} :
        (AskedWithText(kind) /\ ~Parseable(response.reply.text)) =>
            /\ response.status = 200
            /\ response.body.answer = response.reply.text
            /\ response.body.citations = <<>>
            /\ kind = "ask" => response.body.insufficientEvidence = FALSE

\* The last response is that of an ask of the given kind with a question
Asked(kind) == response.kind = kind /\ response.question # <<>>

\* C11: a corpus-wide ask served while the store holds no document answers 200
\* with insufficientEvidence = TRUE and no citation, issues no generation
\* request and adds nothing to the history; also after deletions emptied the
\* store
C11_NoDocumentsShortCircuit ==
    (Asked("ask") /\ response.docs = {}) =>
        /\ response.status = 200
        /\ response.body = [ answer |-> NoDocumentsAnswer, citations |-> <<>>,
                             insufficientEvidence |-> TRUE ]
        /\ ~response.generation
        /\ Len(qaHistory) = response.historyBefore

\* A store emptied by deletions was asked and answered with the short-circuit
C11_Witness ==
    /\ Asked("ask")
    /\ response.docs = {}
    /\ nextDocId > 1
    /\ response.body.answer = NoDocumentsAnswer

\* C12: a corpus-wide ask served while documents exist and none of them has
\* page text or full text answers with the fixed insufficient-evidence
\* response and issues no generation request
C12_NoTextShortCircuit ==
    (Asked("ask") /\ response.docs # {} /\ response.withText = {}) =>
        /\ response.status = 200
        /\ response.body = [ answer |-> NoContentAnswer, citations |-> <<>>,
                             insufficientEvidence |-> TRUE ]
        /\ ~response.generation

\* The last response is that of a document-scoped ask with a question on a
\* document that existed and had no page with text
AskedWithoutPageText ==
    /\ Asked("documentAsk")
    /\ response.id \in response.docs
    /\ response.pagesWithText = 0

\* C13: a document-scoped ask on an existing document without any page that has
\* text answers 200 with the fixed "No text content available" answer and no
\* citation, and issues no generation request
C13_NoPageTextAnswer ==
    AskedWithoutPageText =>
        /\ response.status = 200
        /\ response.body = [answer |-> NoPageTextAnswer, citations |-> <<>>]
        /\ ~response.generation

\* An empty PDF was asked about and answered with the fixed answer
C13_Witness ==
    /\ AskedWithoutPageText
    /\ response.id \in DOMAIN documents
    /\ documents[response.id].fullText = Some(<<>>)
    /\ response.body.answer = NoPageTextAnswer

\* C14 as the handler has it: a document-scoped ask on a document without page
\* text is not an error; it answers 200 with an answer and no error member
C14_NoPageTextIsNotAnError ==
    AskedWithoutPageText =>
        /\ response.status = 200
        /\ DOMAIN response.body = {"answer", "citations"}

\* C14 as stated: a document-scoped ask on a document without page text fails
\* with 400
C14_NoPageTextIsBadRequest ==
    AskedWithoutPageText => response.status = 400

\* A document without page text was asked about and the response was no error
C14_Witness ==
    /\ AskedWithoutPageText
    /\ response.status = 200
    /\ "error" \notin DOMAIN response.body

\* The reset of the reprocess handler of document id took effect and its
\* processDocument is started by this step
ReprocessStarts(id) ==
    /\ id \in DOMAIN documents'
    /\ \E r \in DOMAIN runs : runs[r].documentId = id /\ ReprocessReset(r)

\* The derived columns of the document are all null and its status is pending
Cleared(row) ==
    /\ row.processingStatus = "pending"
    /\ row.fullText = None /\ row.aiSummary = None /\ row.keyTopics = None
    /\ row.sentiment = None /\ row.errorMessage = None

\* C15: a reprocess of an unknown id answers 404 and changes nothing; when a
\* reprocess of an existing document starts its processDocument, the document
\* is pending with fullText, aiSummary, keyTopics, sentiment and errorMessage
\* null and has no page row and no chunk row
C15_ReprocessStartsClean ==
    [][\A id \in 1..MaxDocs :
          /\ (GetDocument(id) = None /\ ReprocessBegin(id)) =>
                /\ finished'.outcome = "http404"
                /\ UNCHANGED <<documents, objects, documentPages, embeddings,
                               runs, qaHistory>>
          /\ ReprocessStarts(id) =>
                /\ Cleared(documents'[id])
                /\ { page \in documentPages' : page.documentId = id } = {}
                /\ { chunk \in embeddings' : chunk.documentId = id } = {}]_vars

\* The part of C15 that no other invocation can disturb: the 404 of an unknown
\* id, and the columns of the document when processDocument is started
C15_ReprocessResetsColumns ==
    [][\A id \in 1..MaxDocs :
          /\ (GetDocument(id) = None /\ ReprocessBegin(id)) =>
                /\ finished'.outcome = "http404"
                /\ UNCHANGED <<documents, objects, documentPages, embeddings,
                               runs, qaHistory>>
          /\ ReprocessStarts(id) => Cleared(documents'[id])]_vars

\* Every failed document has an error message
FailedHasMessage ==
    \A d \in DOMAIN documents :
        Status(d) = "failed" => documents[d].errorMessage # None

\* C16: when a processDocument invocation in which an awaited call threw
\* returns, its document (if it still exists) is failed with errorMessage the
\* message of what was thrown; and in every state a failed document has an
\* errorMessage
C16_ExceptionFailsDocument ==
    [][/\ \A r \in DOMAIN runs :
            (/\ runs[r].pc = "catch"
             /\ r \notin DOMAIN runs'
             /\ runs[r].documentId \in DOMAIN documents)
                => /\ documents'[runs[r].documentId].processingStatus = "failed"
                   /\ documents'[runs[r].documentId].errorMessage = Some(runs[r].error)
       /\ FailedHasMessage']_vars

\* A processDocument invocation or a reprocess handler of the document is in flight
InFlight(d) == \E r \in DOMAIN runs : runs[r].documentId = d

\* C17: a failed document with nothing in flight for it stays failed in every
\* step that leaves it in the store; only a reprocess handler, once in flight,
\* changes its status
C17_FailedStaysFailed ==
    [][\A d \in DOMAIN documents :
          (Status(d) = "failed" /\ ~InFlight(d))
              => (d \in DOMAIN documents' => documents'[d].processingStatus = "failed")]_vars

\* A document is failed with nothing in flight, and the last request served
\* since its invocation returned was a reprocess of another id
C17_Witness ==
    \E d \in DOMAIN documents :
        /\ Status(d) = "failed" /\ ~InFlight(d)
        /\ finished.outcome = "http404" /\ finished.documentId # d

C19_RowHasBinary ==
    \A d \in DOMAIN documents : d \in DOMAIN objects

\* An upload of a file of a type outside the allow-list, whatever the object
\* store would do
RejectedUpload == \E name \in Names, put \in PutOutcomes : Submit(name, TextFile, put)

\* C20: an upload whose MIME type is outside the allow-list creates no
\* document row, writes nothing to object storage and to the tables, and
\* starts no processDocument
C20_InvalidTypeRejected ==
    [][RejectedUpload =>
          /\ finished'.outcome = "invalidFileType"
          /\ UNCHANGED <<documents, nextDocId, objects, documentPages, embeddings,
                         runs, nextRunId>>]_vars

\* A text/plain upload was turned away from a store that was never written
C20_Witness ==
    /\ finished.outcome = "invalidFileType"
    /\ documents = <<>> /\ objects = <<>> /\ runs = <<>>
    /\ documentPages = {} /\ embeddings = {}

\* The invocation that returned last completed a PDF that parsed, with a
\* reported page count N >= 1 and a non-blank text in each of its N slices
ParsedInFull ==
    /\ finished.outcome = "completed" /\ finished.parse = "ok"
    /\ LET file == objects[finished.documentId]
       IN  /\ file.total >= 1
           /\ Len(file.text) > 0
           /\ \A k \in 1..file.total : ~Blank(SplitPages(file.text, file.total)[k])

\* C21: a run on a PDF of N reported pages whose N slices are all non-blank
\* leaves the document completed with N page rows, N chunk rows and
\* pageCount = N
C21_RoundTrip ==
    ParsedInFull =>
        LET d == finished.documentId
            N == objects[d].total
        IN  /\ Status(d) = "completed"
            /\ Cardinality(GetDocumentPages(d)) = N
            /\ Cardinality(GetEmbeddings(d)) = N
            /\ PageNumbers(d) = 1..N
            /\ documents[d].pageCount = Some(N)

\* A two-page PDF was processed to two pages and two chunks
C21_Witness ==
    /\ ParsedInFull
    /\ objects[finished.documentId].total = 2
    /\ Cardinality(GetDocumentPages(finished.documentId)) = 2
    /\ Cardinality(GetEmbeddings(finished.documentId)) = 2

\* The label a reply of the classifier stands for: the valid label it spells
\* in whatever letter case and surrounding whitespace, otherwise "other"
LabelOf(reply) ==
    IF reply.type = "text" /\ reply.text = " Annual_Report " THEN "annual_report"
    ELSE "other"

\* C22: whatever the classifier request yields, the step that ends a run
\* completes the document with a documentType that is one of the eight
\* labels: the label the reply spells when it is valid, "other" otherwise
C22_ClassificationNeverFails ==
    [][\A r \in DOMAIN runs, reply \in ClassifyReplies :
          RunComplete(r, reply) =>
              LET row == documents'[runs[r].documentId]
              IN  /\ row.processingStatus = "completed"
                  /\ row.documentType = Some(LabelOf(reply))
                  /\ LabelOf(reply) \in ValidTypes
                  /\ finished'.outcome = "completed"]_vars

\* A document was completed with the label its classifier reply spells
C22_Witness ==
    /\ finished.outcome = "completed"
    /\ documents[finished.documentId].documentType = Some("annual_report")

\* C23: every stored chunk text has at most 2000 characters, however long its
\* page text is
C23_ChunkTextCapped ==
    \A chunk \in embeddings : Len(chunk.chunkText) <= ChunkLimit

\* A page longer than 2000 characters is stored whole and its chunk holds
\* 2000 characters
C23_Witness ==
    \E chunk \in embeddings, page \in documentPages :
        /\ page.documentId = chunk.documentId /\ page.pageNumber = chunk.pageNumber
        /\ Len(page.pageText) > ChunkLimit
        /\ Len(chunk.chunkText) = ChunkLimit

\* C24: every chunk's tokenCount is ceil(chunkText.length / 4) of the chunk
\* text that is stored
C24_TokenCountOfChunkText ==
    \A chunk \in embeddings :
        chunk.tokenCount = Ceil(Len(chunk.chunkText), CharsPerToken)

\* C25: every document whose status is completed has a page count, and it is
\* at least 1, whatever the extraction produced
C25_CompletedHasPages ==
    \A id \in DOMAIN documents :
        documents[id].processingStatus = "completed" =>
            /\ documents[id].pageCount # None
            /\ documents[id].pageCount[1] >= 1

\* A PDF whose reported page count is 0 was completed with page count 1
C25_Witness ==
    /\ finished.outcome = "completed" /\ finished.parse = "ok"
    /\ finished.documentId \in DOMAIN objects
    /\ objects[finished.documentId].fileType = "application/pdf"
    /\ objects[finished.documentId].total = 0
    /\ documents[finished.documentId].processingStatus = "completed"
    /\ documents[finished.documentId].pageCount = Some(1)

\* The placeholder of an allowed MIME type other than PDF
PlaceholderOf(fileType) ==
    IF fileType \in { "application/vnd.ms-excel",
                      "application/vnd.openxmlformats-officedocument.spreadsheetml.sheet" }
    THEN ExcelText
    ELSE IF fileType \in { "image/png", "image/jpeg" }
         THEN ImageText
         ELSE UnsupportedText

\* The last run that returned worked on a stored file that is no PDF
ReturnedNonPdf ==
    /\ finished.outcome \in {"completed", "failed"}
    /\ finished.documentId \in DOMAIN objects \cap DOMAIN documents
    /\ objects[finished.documentId].fileType # "application/pdf"

\* C26: a run on an allowed type other than PDF completes with exactly one page
\* and one chunk, and the page holds the placeholder of the type
C26_NonPdfPlaceholder ==
    ReturnedNonPdf =>
        LET d == finished.documentId
        IN  /\ finished.outcome = "completed"
            /\ Status(d) = "completed"
            /\ documents[d].pageCount = Some(1)
            /\ documents[d].fullText = Some(PlaceholderOf(objects[d].fileType))
            /\ Cardinality(GetDocumentPages(d)) = 1
            /\ Cardinality(GetEmbeddings(d)) = 1
            /\ \A page \in GetDocumentPages(d) :
                   /\ page.pageNumber = 1
                   /\ page.pageText = PlaceholderOf(objects[d].fileType)
            /\ \A chunk \in GetEmbeddings(d) :
                   chunk.chunkText = PlaceholderOf(objects[d].fileType)

\* A spreadsheet was completed with the spreadsheet placeholder
C26_Witness ==
    /\ ReturnedNonPdf
    /\ objects[finished.documentId].fileType = "application/vnd.ms-excel"
    /\ \E page \in GetDocumentPages(finished.documentId) : page.pageText = ExcelText

-----------------------------------------------------------------------------
(* routes.ts: the requests addressed to one document *)

\* storage.getDocumentPage(documentId, pageNumber): the results the query can
\* yield, a row of that document and page number or undefined
GetDocumentPage(documentId, pageNumber) ==
    LET rows == { p \in documentPages :
                    p.documentId = documentId /\ p.pageNumber = pageNumber }
    IN  IF rows = {} THEN {None} ELSE { Some(p) : p \in rows }

\* What a handler answered, the reply of the generation service it received,
\* and whether the store held the document and the page addressed when the
\* request was served
RequestResponse(kind, id, pageNumber, status, body, reply) ==
    [ kind |-> kind, id |-> id, pageNumber |-> pageNumber, status |-> status,
      body |-> body, reply |-> reply,
      known |-> GetDocument(id) # None,
      knownPage |-> GetDocumentPage(id, pageNumber) # {None} ]

ReadKinds == { "get", "status", "download", "view" }
NoPageInsight ==
    [summary |-> <<"No text content available for this page.">>, keyPoints |-> <<>>]

\* GET /api/documents/:id, /status, /download and /view: 404 for an unknown id;
\* download and view read the binary and answer 500 when it is missing
ReadRequest(kind, id) ==
    /\ response' =
          IF GetDocument(id) = None
          THEN RequestResponse(kind, id, 0, 404, [error |-> "Document not found"], NoReply)
          ELSE IF kind \in {"download", "view"}
          THEN IF id \in DOMAIN objects
               THEN RequestResponse(kind, id, 0, 200, objects[id], NoReply)
               ELSE RequestResponse(kind, id, 0, 500, [error |-> "Failed"], NoReply)
          ELSE IF kind = "status"
          THEN RequestResponse(kind, id, 0, 200,
                               [ processingStatus |-> documents[id].processingStatus,
                                 errorMessage |-> documents[id].errorMessage ], NoReply)
          ELSE RequestResponse(kind, id, 0, 200,
                               [ document |-> documents[id],
                                 pages |-> GetDocumentPages(id) ], NoReply)
    /\ UNCHANGED <<documents, nextDocId, objects, documentPages, embeddings,
                   runs, nextRunId, finished, qaHistory>>

\* DELETE /api/documents/:id with its answer: await storage.deleteDocument(id),
\* which deletes no row for an unknown id, then res.status(204).send()
DeleteRequest(id) ==
    /\ documents' = DeleteDocument(id)
    /\ documentPages' = OnDeleteCascade(documentPages, id)
    /\ embeddings' = OnDeleteCascade(embeddings, id)
    /\ response' = RequestResponse("delete", id, 0, 204, <<>>, NoReply)
    /\ UNCHANGED <<nextDocId, objects, runs, qaHistory, nextRunId, finished>>

\* POST /api/documents/:id/page-insight
PageInsight(id, pageNumber, reply) ==
    /\ \E page \in GetDocumentPage(id, pageNumber) :
         LET jsonMatch == JsonMatch(reply.text)
             parsed == IF jsonMatch = None THEN None ELSE JsonParse(jsonMatch[1])
             Answer(status, body, received) ==
                 RequestResponse("pageInsight", id, pageNumber, status, body, received)
         IN  response' =
               IF page = None \/ page[1].pageText = <<>>
               THEN Answer(200, NoPageInsight, NoReply)
               ELSE IF reply.type # "text" \/ (jsonMatch # None /\ parsed = None)
               THEN Answer(500, [error |-> "Failed to generate page insight"], reply)
               ELSE IF jsonMatch = None
               THEN Answer(200, [summary |-> reply.text, keyPoints |-> <<>>], reply)
               ELSE Answer(200, parsed[1], reply)
    /\ UNCHANGED <<documents, nextDocId, objects, documentPages, embeddings,
                   runs, nextRunId, finished, qaHistory>>

\* The ids the requests are addressed to: those of the corpus and one more;
\* the page numbers are 1, which a document with text has, and 2
RequestIds == 1..(MaxDeleted + 1)

\* The requests addressed to one document, on a corpus whose documents are
\* being deleted
NextRequests ==
    \/ \E kind \in ReadKinds, id \in RequestIds : ReadRequest(kind, id)
    \/ \E id \in RequestIds : DeleteRequest(id)
    \/ \E id \in RequestIds, pageNumber \in {1, 2}, reply \in Replies :
            PageInsight(id, pageNumber, reply)
    \/ \E id \in RequestIds, question \in Questions, reply \in Replies :
            DocumentAsk(id, question, reply)

SpecRequests == InitDeleted /\ [][NextRequests]_vars

\* The last request answered was addressed to a document or page the store
\* did not hold
UnknownAddressed ==
    /\ response.kind \in ReadKinds \cup {"delete", "pageInsight", "documentAsk"}
    /\ \/ response.kind = "documentAsk" /\ response.id \notin response.docs
          /\ response.question # <<>>
       \/ response.kind # "documentAsk" /\ ~response.known
       \/ response.kind = "pageInsight" /\ ~response.knownPage

\* C27: every request addressed to an unknown document id or page is answered
\* 404
C27_UnknownIsNotFound ==
    UnknownAddressed => response.status = 404

\* C28: a page-insight request whose generation call failed is answered with
\* a result, not an error
C28_PageInsightDegrades ==
    (response.kind = "pageInsight" /\ response.reply.type = "error")
        => response.status = 200

-----------------------------------------------------------------------------
(* The corpora the fallback branch of the corpus-wide ask reads *)

\* Their uploads: a PDF of two pages, a PDF whose one page fills the context
\* by itself, and a PDF without text.  No chunk of them matches a question.
ContextUploads ==
    [ two |-> [ name |-> <<"t", ".", "p">>,
                file |-> [ fileType |-> "application/pdf",
                           text |-> <<"a", "b">>, total |-> 2 ] ],
      full |-> [ name |-> <<"t", ".", "p">>,
                 file |-> [ fileType |-> "application/pdf",
                            text |-> Rep("a", ContextLimit), total |-> 1 ] ],
      empty |-> [ name |-> <<"t", ".", "p">>,
                  file |-> [ fileType |-> "application/pdf",
                             text |-> <<>>, total |-> 0 ] ] ]

\* Up to one document more than the branch reads: two-page PDFs, one of them
\* possibly replaced by a PDF of another kind
InitContext ==
    \E n \in 0..(FallbackDocs + 1), p \in 0..(FallbackDocs + 1),
       kind \in DOMAIN ContextUploads :
        Corpus([k \in 1..n |-> IF k = p THEN ContextUploads[kind]
                                        ELSE ContextUploads.two])

\* The corpus-wide asks on such a corpus, answered by prose, by the object
\* asked for, or by an error
NextContext ==
    \E question \in Questions,
       reply \in { [type |-> "text", text |-> <<Prose>>],
                   [type |-> "text", text |-> <<"{", Members, "}">>],
                   [type |-> "error", text |-> <<>>] } :
        CorpusAsk(question, reply)

SpecContext == InitContext /\ [][NextContext]_vars

\* The last request was a corpus-wide ask that went to the generation service
\* from the fallback branch
AskedFallback ==
    /\ response.kind = "ask" /\ response.generation
    /\ response.branch = "fallback"

\* The newest documents of a set of ids, as many as the fallback branch reads
NewestOf(ids) ==
    { d \in ids : Cardinality({ e \in ids : e > d }) < FallbackDocs }

\* C29: in the fallback branch of the corpus-wide ask the text comes from at
\* most 5 documents, the context has at most 50,000 characters, and the
\* document ids handed to the history entry are pairwise distinct and among
\* those documents
C29_FallbackBounded ==
    AskedFallback =>
        LET documentIds == response.documentIds
            recorded == { documentIds[k] : k \in 1..Len(documentIds) }
        IN  /\ Cardinality(response.consulted) <= FallbackDocs
            /\ response.consulted \subseteq NewestOf(response.docs)
            /\ response.contextLength <= ContextLimit
            /\ \A i, j \in 1..Len(documentIds) :
                   i # j => documentIds[i] # documentIds[j]
            /\ recorded \subseteq NewestOf(response.docs)
            /\ response.status = 200 =>
                   qaHistory[Len(qaHistory)].documentIds = recorded

\* A store of more than 5 documents was asked, 5 of them gave text of two
\* pages or more than the context holds, and the context was cut
C29_Witness ==
    /\ AskedFallback /\ response.status = 200
    /\ Cardinality(response.docs) > FallbackDocs
    /\ Len(response.documentIds) = FallbackDocs
    /\ response.contextLength = ContextLimit

\* C30: a document-scoped ask, whatever its outcome, leaves the QaHistory
\* collection, the documents, the pages and the chunks as they were.  Among
\* document-scoped asks and deletions no step changes the history, and the
\* steps that answer, which are the asks, change no document, page or chunk.
C30_DocumentAskRecordsNothing ==
    [][/\ qaHistory' = qaHistory
       /\ response' # response =>
              /\ response'.kind = "documentAsk"
              /\ UNCHANGED <<documents, documentPages, embeddings>>]_vars

\* A document-scoped ask was answered from the reply of the generation
\* service and the history is as long as it was
C30_Witness ==
    /\ response.kind = "documentAsk" /\ response.generation
    /\ response.status = 200
    /\ Len(qaHistory) = response.historyBefore

-----------------------------------------------------------------------------
(* routes.ts: the history of the corpus-wide asks *)

\* GET /api/qa/history: res.json(await storage.getQaHistory(20)).  The
\* response also tells how many entries the collection held.
History ==
    /\ response' = [ kind |-> "history", status |-> 200,
                     body |-> GetQaHistory(HistoryLimit),
                     historyBefore |-> Len(qaHistory) ]
    /\ UNCHANGED <<documents, nextDocId, objects, documentPages, embeddings,
                   runs, nextRunId, finished, qaHistory>>

\* A corpus whose history is one entry short of what a read returns, or
\* exactly that long: the entries earlier asks about document 1 left
InitHistory ==
    \E uploads \in DeletedUploadLists, n \in {HistoryLimit - 1, HistoryLimit} :
        AskedCorpus(uploads,
                    [k \in 1..n |-> [ question |-> <<"x">>, answer |-> <<"a">>,
                                      citations |-> <<>>, documentIds |-> {1} ]])

\* Reads of the history while questions are asked and documents are deleted
\* and reprocessed
NextHistory ==
    \/ History
    \/ \E question \in Questions,
          reply \in { [type |-> "text", text |-> <<Prose>>],
                      [type |-> "text", text |-> <<"{", Members, "}">>],
                      [type |-> "error", text |-> <<>>] } :
            /\ Len(qaHistory) < HistoryLimit + MaxAsks
            /\ CorpusAskRequest(question, reply)
    \/ \E id \in 1..MaxDeleted : Delete(id)
    \/ \E id \in DOMAIN documents : ReprocessBegin(id)
    \/ \E r \in 1..MaxRuns :
        \/ ReprocessDeletePages(r)
        \/ ReprocessDeleteEmbeddings(r)
        \/ ReprocessReset(r)
        \/ RunStart(r)
        \/ RunExtract(r, "ok")
        \/ RunCreatePage(r)
        \/ RunCreateEmbedding(r)
        \/ RunComplete(r, [type |-> "text", text |-> "a report"])

SpecHistory == InitHistory /\ [][NextHistory]_vars

\* C31: no step removes or changes an entry of the QaHistory collection, and
\* a history read returns at most 20 entries, the newest first
C31_HistoryAppendOnly ==
    [][/\ Len(qaHistory') >= Len(qaHistory)
       /\ \A k \in 1..Len(qaHistory) : qaHistory'[k] = qaHistory[k]
       /\ response'.kind = "history" =>
              LET body == response'.body
                  held == response'.historyBefore
              IN  /\ Len(body) = Min(HistoryLimit, held)
                  /\ \A k \in 1..Len(body) : body[k].id = held - k + 1]_vars

\* A read of a collection of more than 20 entries returned 20, after a
\* document was deleted
C31_Witness ==
    /\ response.kind = "history"
    /\ response.historyBefore > HistoryLimit
    /\ Len(response.body) = HistoryLimit
    /\ nextDocId > 1 /\ DOMAIN documents # 1..(nextDocId - 1)

\* C32: after a run that completed alone, the document has a page numbered p
\* exactly when it has a chunk of page p, whose chunkIndex is p - 1; no page
\* and no chunk holds an empty or whitespace-only text, and the pages of a
\* parsed PDF are those of its slices that are not blank
C32_PagesAndChunksGatedAlike ==
    \A d \in DOMAIN documents :
        Status(d) = "completed" =>
            /\ PageNumbers(d) = { c.pageNumber : c \in GetEmbeddings(d) }
            /\ Cardinality(GetDocumentPages(d)) = Cardinality(PageNumbers(d))
            /\ Cardinality(GetEmbeddings(d)) = Cardinality(PageNumbers(d))
            /\ \A c \in GetEmbeddings(d) : c.chunkIndex = c.pageNumber - 1
            /\ \A p \in GetDocumentPages(d) : ~Blank(p.pageText)
            /\ \A c \in GetEmbeddings(d) : ~Blank(c.chunkText)
            /\ (finished.documentId = d /\ finished.parse = "ok") =>
                   LET slices == SplitPages(objects[d].text, PageCountOf(objects[d].total))
                   IN  PageNumbers(d) = { k \in 1..Len(slices) : ~Blank(slices[k]) }

\* A PDF whose first slice is blank was completed with page 2 and its chunk
\* only
C32_Witness ==
    /\ finished.outcome = "completed" /\ finished.parse = "ok"
    /\ PageNumbers(finished.documentId) = {2}
    /\ \E c \in GetEmbeddings(finished.documentId) : c.chunkIndex = 1
    /\ Blank(SplitPages(objects[finished.documentId].text,
                        objects[finished.documentId].total)[1])

\* The slices a run holds are those of a parsed PDF with text
SlicedPdf(r) ==
    /\ runs[r].parse = "ok"
    /\ runs[r].pc \in {"page", "chunk", "complete"}
    /\ runs[r].documentId \in DOMAIN objects
    /\ objects[runs[r].documentId].fileType = "application/pdf"
    /\ Len(objects[runs[r].documentId].text) > 0

\* C33: the slices of a non-empty extracted text of length L for a page count
\* N >= 1 are N in number, each at most ceil(L / N) long, and slice k is the
\* text from the end of slice k - 1 on, so that together they are the text
C33_SlicesPartitionText ==
    \A r \in DOMAIN runs :
        SlicedPdf(r) =>
            LET text == objects[runs[r].documentId].text
                N == PageCountOf(objects[runs[r].documentId].total)
                slices == runs[r].pageTexts
                Before[k \in 0..Len(slices)] ==
                    IF k = 0 THEN <<>> ELSE Before[k - 1] \o slices[k]
            IN  /\ N >= 1
                /\ Len(slices) = N
                /\ \A k \in 1..N : Len(slices[k]) <= Ceil(Len(text), N)
                /\ \A k \in 1..N :
                       slices[k] = SubSeq(text, Len(Before[k - 1]) + 1, Len(Before[k]))
                /\ Before[N] = text

\* A text of 4 characters was cut into 3 slices, the last of them empty
C33_Witness ==
    \E r \in DOMAIN runs :
        /\ SlicedPdf(r)
        /\ Len(objects[runs[r].documentId].text) = 4
        /\ Len(runs[r].pageTexts) = 3
        /\ runs[r].pageTexts[3] = <<>>

\* C34: a document for which no processDocument invocation and no handler is
\* in flight is completed or failed
C34_SettledWhenIdle ==
    \A d \in DOMAIN documents :
        ~InFlight(d) => Status(d) \in {"completed", "failed"}

\* A document that was reprocessed while its first run was writing is idle
\* and completed, holding pages of both runs
C34_Witness ==
    /\ \E d \in DOMAIN documents :
          /\ ~InFlight(d)
          /\ Status(d) = "completed"
          /\ Cardinality({ p.run : p \in GetDocumentPages(d) }) >= 2

-----------------------------------------------------------------------------
(* routes.ts: POST /api/documents/:id/summary *)

\* The handler up to its first decision: const document = await
\* storage.getDocument(id); 404 for an unknown id, 400 unless the document is
\* completed.  One summary handler is in flight at a time, under the id that
\* follows those of the processDocument invocations.
SummaryBegin(id) ==
    /\ (MaxRuns + 1) \notin DOMAIN runs
    /\ IF GetDocument(id) = None
       THEN /\ response' = RequestResponse("summary", id, 0, 404,
                                           [error |-> "Document not found"], NoReply)
            /\ UNCHANGED runs
       ELSE IF documents[id].processingStatus # "completed"
       THEN /\ response' = RequestResponse("summary", id, 0, 400,
                               [error |-> "Document is not fully processed yet"], NoReply)
            /\ UNCHANGED runs
       ELSE /\ runs' = Started(MaxRuns + 1, NewRun("summary", "summaryPages", id))
            /\ UNCHANGED response
    /\ UNCHANGED <<documents, nextDocId, objects, documentPages, embeddings,
                   nextRunId, finished, qaHistory>>

\* const pages = await storage.getDocumentPages(id); 400 when the joined page
\* texts are empty, otherwise the request to the generation service is sent
SummaryPages(r) ==
    /\ Running(r) /\ runs[r].pc = "summaryPages"
    /\ IF \A p \in GetDocumentPages(runs[r].documentId) : p.pageText = <<>>
       THEN /\ response' = RequestResponse("summary", runs[r].documentId, 0, 400,
                               [error |-> "No text content available"], NoReply)
            /\ runs' = Returned(r)
       ELSE /\ runs' = [runs EXCEPT ![r].pc = "summaryGenerate"]
            /\ UNCHANGED response
    /\ UNCHANGED <<documents, nextDocId, objects, documentPages, embeddings,
                   nextRunId, finished, qaHistory>>

\* The reply arrives: an error, a block that is no text or a text without an
\* object is answered 500 from the catch; otherwise await
\* storage.updateDocument(id, {aiSummary, keyTopics, sentiment}) and the
\* parsed object is the response
SummaryFinish(r, reply) ==
    /\ Running(r) /\ runs[r].pc = "summaryGenerate"
    /\ LET id == runs[r].documentId
           jsonMatch == JsonMatch(reply.text)
       IN  IF reply.type # "text" \/ jsonMatch = None
           THEN /\ response' = RequestResponse("summary", id, 0, 500,
                                   [error |-> "Failed to generate summary"], reply)
                /\ UNCHANGED documents
           ELSE /\ documents' = UpdateDocument(id,
                                   [ aiSummary |-> Some(<<"s">>),
                                     keyTopics |-> Some(<<"t">>),
                                     sentiment |-> Some("neutral") ])
                /\ response' = RequestResponse("summary", id, 0, 200,
                                   [ summary |-> <<"s">>, keyThemes |-> <<"t">>,
                                     sentiment |-> "neutral" ], reply)
    /\ runs' = Returned(r)
    /\ UNCHANGED <<nextDocId, objects, documentPages, embeddings,
                   nextRunId, finished, qaHistory>>

\* Summary requests while documents are uploaded, processed and reprocessed;
\* the service replies with the object asked for, with prose, or fails
NextSummary ==
    \/ \E name \in Names : Submit(name, FaultFile, "stored")
    \/ \E id \in DOMAIN documents : ReprocessBegin(id)
    \/ \E id \in 1..(MaxDocs + 1) : SummaryBegin(id)
    \/ SummaryPages(MaxRuns + 1)
    \/ \E reply \in { [type |-> "text",
                       text |-> <<"{", "\"summary\":\"s\",\"keyThemes\":[\"t\"],\"sentiment\":\"neutral\"", "}">>],
                      [type |-> "text", text |-> <<Prose>>],
                      [type |-> "error", text |-> <<>>] } :
            SummaryFinish(MaxRuns + 1, reply)
    \/ \E r \in 1..MaxRuns :
        \/ RunStart(r)
        \/ RunExtract(r, "ok")
        \/ RunCreatePage(r)
        \/ RunCreateEmbedding(r)
        \/ RunComplete(r, [type |-> "text", text |-> "a report"])
        \/ ReprocessDeletePages(r)
        \/ ReprocessDeleteEmbeddings(r)
        \/ ReprocessReset(r)

SpecSummary == Init /\ [][NextSummary]_vars

\* C35: a document whose aiSummary, keyTopics or sentiment is set is completed
C35_SummaryOnlyOnCompleted ==
    \A d \in DOMAIN documents :
        (\/ documents[d].aiSummary # None
         \/ documents[d].keyTopics # None
         \/ documents[d].sentiment # None)
            => Status(d) = "completed"

\* C36: every chunk has a page of its document and page number
C36_ChunkHasPage ==
    \A c \in embeddings :
        \E p \in documentPages :
            p.documentId = c.documentId /\ p.pageNumber = c.pageNumber

\* C37: a document completed by one run that ran alone has at most pageCount
\* page records
C37_PagesWithinPageCount ==
    \A d \in DOMAIN documents :
        Status(d) = "completed" =>
            Cardinality(GetDocumentPages(d)) <= documents[d].pageCount[1]

\* C38: a corpus-wide ask is answered with the "no extractable text"
\* short-circuit only when no document of the store has page text or full
\* text; when a document has text the request goes to the generation service
C38_NoTextOnlyWithoutText ==
    (Asked("ask") /\ response.withText # {}) =>
        /\ response.generation
        /\ response.body # [ answer |-> NoContentAnswer, citations |-> <<>>,
                             insufficientEvidence |-> TRUE ]


-----------------------------------------------------------------------------
(* searchEmbeddings as a storage call *)

\* A call of searchEmbeddings(query, limit): two SELECTs and no write.  The
\* value it returned is kept as the response
CallSearchEmbeddings(query, limit) ==
    /\ \E found \in SearchEmbeddings(query, limit) :
          response' = [ kind |-> "searchEmbeddings", query |-> query,
                        limit |-> limit, found |-> found ]
    /\ UNCHANGED <<documents, nextDocId, objects, documentPages, embeddings,
                   runs, nextRunId, finished, qaHistory>>

\* The calls on a corpus: the limits its two callers pass, and a small one
NextEmbeddingSearch ==
    \E query \in Queries, limit \in {1, AskLimit, SearchLimit} :
        CallSearchEmbeddings(query, limit)

SpecEmbeddingSearch == InitSearch /\ [][NextEmbeddingSearch]_vars

\* C39: searchEmbeddings(query, limit) returns full-text matches when there is
\* at least one, and otherwise chunks whose text contains the query as a
\* case-insensitive substring; it returns at most limit chunks (limit of them
\* when that many match, else all that match) and leaves the store unchanged
C39_SearchEmbeddingsTiers ==
    [][(response' # response /\ response'.kind = "searchEmbeddings") =>
          LET matching == IF FullTextRows(response'.query) # {}
                          THEN FullTextRows(response'.query)
                          ELSE ILikeRows(response'.query)
          IN  /\ response'.found \subseteq matching
              /\ Cardinality(response'.found) <= response'.limit
              /\ Cardinality(response'.found) =
                      Min(response'.limit, Cardinality(matching))
              /\ UNCHANGED <<documents, objects, documentPages, embeddings,
                             qaHistory>>]_vars

\* A call with limit 10 was answered from the substring query with ten of more
\* than ten matching chunks, none of which is a full-text match
C39_Witness ==
    /\ response.kind = "searchEmbeddings" /\ response.limit = AskLimit
    /\ FullTextRows(response.query) = {}
    /\ Cardinality(ILikeRows(response.query)) > AskLimit
    /\ Cardinality(response.found) = AskLimit
    /\ response.found \subseteq ILikeRows(response.query)

=============================================================================
